---- MODULE Spec2Model ----
(***************************************************************************)
(* FMCSA register scraper: the four register handlers (HTML form scrape    *)
(* and PDF scrape, each as a serverless function and as an express        *)
(* route), their record extraction, categorisation and de-duplication;    *)
(* the carrier, safety and insurance scrape routes of the express server; *)
(* the register page of the dashboard, which calls the register handler.  *)
(*                                                                         *)
(* Spec      record extraction over documents built from line menus       *)
(* SpecReq   every kind of request, one at a time                         *)
(* SpecDedup the de-duplication filter alone                              *)
(* SpecDash  the dashboard page and the handler it calls                  *)
(* SpecConc  two register requests in flight at once                      *)
(* SpecLive  a server answering requests in turn, fetches settling        *)
(* SpecPage  the register page with loads, fetches and saves in flight    *)
(* SpecFilter the category and search filters of the register page        *)
(* SpecPdf   the PDF handlers over texts of section headers and records   *)
(*                                                                         *)
(* Texts are sequences of one-character strings.  Indices into a text are *)
(* 0-based, as in the JavaScript source (text[i + 1] is character i).    *)
(***************************************************************************)
EXTENDS Integers, Sequences, FiniteSets, TLC

VARIABLES
  handler,    \* which register handler serves the request
  method,     \* HTTP method of the request
  pc,         \* position of the handler: idle, fetching (at the await), done
  reqDate,    \* req.body.date (NoDate when absent)
  outbound,   \* the outbound fetch the handler issued
  doc,        \* the fetched document (response.data / data.text)
  page,       \* response.data of a scrape route, as its parsing code sees it
  entries,    \* the handler's local `entries` list, before de-duplication
  res,        \* the response sent
  error,      \* the error the handler's catch block caught (NoError when none)
  now,        \* the `new Date()` the handler formatted (NoClock when it took none)
  param,      \* req.params.mcNumber / req.params.dotNumber of a scrape request
  carrierData,  \* the carrier route's local `carrierData` record
  fetches,    \* primary outbound fetches the request has issued
  emailFetches, \* dependent email fetches the request has issued
  emailError, \* the error the carrier route's inner catch caught (NoError when none)
  sent,       \* responses the request has sent
  served,     \* statuses of the requests answered before this one
  other,      \* a second request in flight, suspended at an await
  dash        \* state of the dashboard component

vars == <<handler, method, pc, reqDate, outbound, doc, page, entries, res, error, now, param,
          carrierData, fetches, emailFetches, emailError, sent, served, other, dash>>

----------------------------------------------------------------------------
(* Characters and strings *)

Digits == {"0", "1", "2", "3", "4", "5", "6", "7", "8", "9"}

\* \s of the regular expressions, restricted to the characters of the model
Whitespace == {" ", "\t", "\n"}

\* characters that `.` does not match
LineTerminators == {"\n"}

LowerLetters == <<"a","b","c","d","e","f","g","h","i","j","k","l","m","n","o","p","q","r","s","t","u","v","w","x","y","z">>

UpperLetters == <<"A","B","C","D","E","F","G","H","I","J","K","L","M","N","O","P","Q","R","S","T","U","V","W","X","Y","Z">>

LowerSet == {LowerLetters[i] : i \in 1..26}

UpperMap == [c \in LowerSet |-> UpperLetters[CHOOSE i \in 1..26 : LowerLetters[i] = c]]

\* String.prototype.toUpperCase()
ToUpperCase(text) ==
  [i \in 1..Len(text) |-> IF text[i] \in LowerSet THEN UpperMap[text[i]] ELSE text[i]]

UpperSet == {UpperLetters[i] : i \in 1..26}

LowerMap == [c \in UpperSet |-> LowerLetters[CHOOSE i \in 1..26 : UpperLetters[i] = c]]

\* String.prototype.toLowerCase()
ToLowerCase(text) ==
  [i \in 1..Len(text) |-> IF text[i] \in UpperSet THEN LowerMap[text[i]] ELSE text[i]]

Max(a, b) == IF a >= b THEN a ELSE b

Min(S) == CHOOSE x \in S : \A y \in S : x <= y

\* String.prototype.substring(a, b) for 0 <= a <= b
Substring(text, a, b) == SubSeq(text, a + 1, b)

StartsWithAt(text, pat, i) ==
  /\ i + Len(pat) <= Len(text)
  /\ SubSeq(text, i + 1, i + Len(pat)) = pat

\* the indices of the characters of `class`
Scan(text, class) == {i \in 0..(Len(text) - 1) : text[i + 1] \in class}

\* String.prototype.indexOf(pat, from): first index >= from, or -1.  `at`
\* holds every index of the text at which a searched string can start (the
\* indices of their first characters), so that the text is scanned once
IndexOf(at, text, pat, from) ==
  LET hits == {i \in at : i >= from /\ StartsWithAt(text, pat, i)}
  IN  IF hits = {} THEN -1 ELSE Min(hits)

Includes(at, text, pat) == IndexOf(at, text, pat, 0) # -1

\* number of consecutive characters of `class` from index i on
RECURSIVE RunLen(_, _, _)
RunLen(text, i, class) ==
  IF i < Len(text) /\ text[i + 1] \in class
  THEN 1 + RunLen(text, i + 1, class)
  ELSE 0

\* number of consecutive characters of `class` that end the text
RECURSIVE TrailLen(_, _, _)
TrailLen(text, n, class) ==
  IF n > 0 /\ text[n] \in class
  THEN 1 + TrailLen(text, n - 1, class)
  ELSE 0

\* String.prototype.trim()
Trim(s) ==
  LET lead == RunLen(s, 0, Whitespace)
  IN  IF lead = Len(s) THEN <<>>
      ELSE SubSeq(s, lead + 1, Len(s) - TrailLen(s, Len(s), Whitespace))

\* variant: s.replace(/\s/g, ' '), each whitespace character becomes a space
CollapseWsEach(s) == [i \in 1..Len(s) |-> IF s[i] \in Whitespace THEN " " ELSE s[i]]

\* s.replace(/\s+/g, ' '): every maximal whitespace run becomes one space
CollapseWs(s) ==
  LET marked == [i \in 1..Len(s) |->
                   [ch |-> IF s[i] \in Whitespace THEN " " ELSE s[i],
                    drop |-> s[i] \in Whitespace /\ i > 1 /\ s[i - 1] \in Whitespace]]
      Keep(m) == ~m.drop
      kept == SelectSeq(marked, Keep)
  IN  [i \in 1..Len(kept) |-> kept[i].ch]

\* s.replace(/\n/g, ' ')
ReplaceNewlines(s) == [i \in 1..Len(s) |-> IF s[i] = "\n" THEN " " ELSE s[i]]

----------------------------------------------------------------------------
(* The record regular expressions, executed as a backtracking matcher.     *)
(* A path through the pattern at start index s is <<alt, d, k, t, w>>:     *)
(* the prefix alternative taken, the digits taken by \d+, the whitespace   *)
(* taken by the first \s+, the characters taken by the lazy title group    *)
(* and the whitespace taken by the second \s+.                             *)

\* /((?:MC|FF|MX)-\d+)\s+(.*?)\s+(\d{2}\/\d{2}\/\d{4})/g
pattern == [alts |-> <<<<"M","C">>, <<"F","F">>, <<"M","X">>>>, dotAll |-> FALSE]

\* /((?:MC|FF|MX|MX-MC)-\d+)\s+([\s\S]*?)\s+(\d{2}\/\d{2}\/\d{4})/g
recordPattern == [alts |-> <<<<"M","C">>, <<"F","F">>, <<"M","X">>, <<"M","X","-","M","C">>>>, dotAll |-> TRUE]

\* \d{2}\/\d{2}\/\d{4} at index i
DateAt(text, i) ==
  /\ i + 10 <= Len(text)
  /\ \A j \in {1, 2, 4, 5, 7, 8, 9, 10} : text[i + j] \in Digits
  /\ text[i + 3] = "/"
  /\ text[i + 6] = "/"

\* the indices a match looks at: whitespace, line terminators and the first
\* characters of the docket prefixes
Landmarks(re, text) ==
  LET firsts == {re.alts[x][1] : x \in 1..Len(re.alts)}
      hot    == Scan(text, Whitespace \cup firsts)
  IN  [ws    |-> {i \in hot : text[i + 1] \in Whitespace},
       nl    |-> {i \in hot : text[i + 1] \in LineTerminators},
       first |-> {i \in hot : text[i + 1] \in firsts}]

\* how far the title group can reach from index i: `.` stops at a line
\* terminator, [\s\S] at the end of the text
TitleReach(re, text, marks, i) ==
  IF re.dotAll THEN Len(text) - i
  ELSE Min({j \in marks.nl : j >= i} \cup {Len(text)}) - i

\* \s+ before the date, then the date: the whitespace counts w that work
DatePaths(text, ws2) ==
  {w \in 1..RunLen(text, ws2, Whitespace) : DateAt(text, ws2 + w)}

\* the title group from index t0 (it can only end before a whitespace
\* character), then the rest
TitlePaths(re, text, marks, t0) ==
  UNION { {<<x - t0, w>> : w \in DatePaths(text, x)} :
          x \in {y \in marks.ws : y >= t0 /\ y <= t0 + TitleReach(re, text, marks, t0)} }

\* \s+ after the docket from index ws1, then the rest
SpacePaths(re, text, marks, ws1) ==
  UNION { {<<k>> \o p : p \in TitlePaths(re, text, marks, ws1 + k)} :
          k \in 1..RunLen(text, ws1, Whitespace) }

\* -\d+ from index a, then the rest
DigitPaths(re, text, marks, a) ==
  IF ~(a < Len(text) /\ text[a + 1] = "-") THEN {}
  ELSE UNION { {<<d>> \o p : p \in SpacePaths(re, text, marks, a + 1 + d)} :
               d \in 1..RunLen(text, a + 1, Digits) }

\* every way the pattern matches at start index s
PathsAt(re, text, marks, s) ==
  UNION { {<<alt>> \o p : p \in DigitPaths(re, text, marks, s + Len(re.alts[alt]))} :
          alt \in {x \in 1..Len(re.alts) : StartsWithAt(text, re.alts[x], s)} }

\* the order in which the backtracking matcher tries paths: alternatives
\* left to right, greedy quantifiers longest first, the lazy one shortest first
TriedBefore(p, q) ==
  \/ p[1] < q[1]
  \/ p[1] = q[1] /\ p[2] > q[2]
  \/ p[1] = q[1] /\ p[2] = q[2] /\ p[3] > q[3]
  \/ p[1] = q[1] /\ p[2] = q[2] /\ p[3] = q[3] /\ p[4] < q[4]
  \/ p[1] = q[1] /\ p[2] = q[2] /\ p[3] = q[3] /\ p[4] = q[4] /\ p[5] > q[5]

FirstPath(P) == CHOOSE p \in P : \A q \in P : q = p \/ TriedBefore(p, q)

NoMatch == [index |-> -1, g1 |-> <<>>, g2 |-> <<>>, g3 |-> <<>>, lastIndex |-> 0]

\* RegExp.prototype.exec for a /g pattern whose lastIndex is `lastIndex`:
\* the match at the first start index that has one; on failure lastIndex
\* is reset to 0.  marks = Landmarks(re, text)
RegexExec(re, text, marks, lastIndex) ==
  LET starts == {s \in marks.first : s >= lastIndex /\ PathsAt(re, text, marks, s) # {}}
  IN  IF starts = {} THEN NoMatch
      ELSE LET s  == Min(starts)
               p  == FirstPath(PathsAt(re, text, marks, s))
               e1 == s + Len(re.alts[p[1]]) + 1 + p[2]
               b2 == e1 + p[3]
               e2 == b2 + p[4]
               b3 == e2 + p[5]
           IN  [index |-> s,
                g1 |-> Substring(text, s, e1),
                g2 |-> Substring(text, b2, e2),
                g3 |-> Substring(text, b3, b3 + 10),
                lastIndex |-> b3 + 10]

----------------------------------------------------------------------------
(* HTML register path *)

LookBack == 500

categoryPatterns == <<
  [pattern |-> <<"N","A","M","E"," ","C","H","A","N","G","E">>, cat |-> "NAME CHANGE"],
  [pattern |-> <<"C","E","R","T","I","F","I","C","A","T","E",","," ","P","E","R","M","I","T",","," ","L","I","C","E","N","S","E">>, cat |-> "CERTIFICATE, PERMIT, LICENSE"],
  [pattern |-> <<"C","E","R","T","I","F","I","C","A","T","E"," ","O","F"," ","R","E","G","I","S","T","R","A","T","I","O","N">>, cat |-> "CERTIFICATE OF REGISTRATION"],
  [pattern |-> <<"D","I","S","M","I","S","S","A","L">>, cat |-> "DISMISSAL"],
  [pattern |-> <<"W","I","T","H","D","R","A","W","A","L">>, cat |-> "WITHDRAWAL"],
  [pattern |-> <<"R","E","V","O","C","A","T","I","O","N">>, cat |-> "REVOCATION"],
  [pattern |-> <<"T","R","A","N","S","F","E","R","S">>, cat |-> "TRANSFERS"],
  [pattern |-> <<"G","R","A","N","T"," ","D","E","C","I","S","I","O","N"," ","N","O","T","I","C","E","S">>, cat |-> "GRANT DECISION NOTICES"] >>

\* variant: the loop breaks at the first keyword found
CategoryLoopBreak(beforeText, at, i, category) ==
  LET found == {k \in i..Len(categoryPatterns) :
                  Includes(at, beforeText, categoryPatterns[k].pattern)}
  IN  IF found = {} THEN category ELSE categoryPatterns[Min(found)].cat

\* for (const [pattern, cat] of Object.entries(categoryPatterns)) ...
RECURSIVE CategoryLoop(_, _, _, _)
CategoryLoop(beforeText, at, i, category) ==
  IF i > Len(categoryPatterns) THEN category
  ELSE CategoryLoop(beforeText, at, i + 1,
         IF Includes(at, beforeText, categoryPatterns[i].pattern)
         THEN categoryPatterns[i].cat
         ELSE category)

\* variant: another default category
CategoryUnknown(beforeText) ==
  CategoryLoop(beforeText,
               Scan(beforeText, {categoryPatterns[i].pattern[1] : i \in 1..Len(categoryPatterns)}),
               1, "UNKNOWN")

Category(beforeText) ==
  CategoryLoop(beforeText,
               Scan(beforeText, {categoryPatterns[i].pattern[1] : i \in 1..Len(categoryPatterns)}),
               1, "MISCELLANEOUS")

\* variant: the whole text before the match, no look-back limit
BeforeTextAll(rawText, beforeIndex) == ToUpperCase(Substring(rawText, 0, beforeIndex))

BeforeText(rawText, beforeIndex) ==
  ToUpperCase(Substring(rawText, Max(0, beforeIndex - LookBack), beforeIndex))

\* variant: `if` in place of `while`, the loop body runs once
HtmlLoopOnce(rawText, marks, lastIndex, acc) ==
  LET match == RegexExec(pattern, rawText, marks, lastIndex) IN
  IF match.index = -1 THEN acc
  ELSE Append(acc, [number |-> match.g1, title |-> CollapseWs(Trim(match.g2)),
                    decided |-> match.g3,
                    category |-> Category(BeforeText(rawText, match.index))])

\* while ((match = pattern.exec(rawText)) !== null) { ... entries.push(...) }
RECURSIVE HtmlLoop(_, _, _, _)
HtmlLoop(rawText, marks, lastIndex, acc) ==
  LET match == RegexExec(pattern, rawText, marks, lastIndex) IN
  IF match.index = -1 THEN acc
  ELSE LET docket      == match.g1
           info        == CollapseWs(Trim(match.g2))
           decidedDate == match.g3
           category    == Category(BeforeText(rawText, match.index))
       IN  HtmlLoop(rawText, marks, match.lastIndex,
                    Append(acc, [number |-> docket, title |-> info,
                                 decided |-> decidedDate, category |-> category]))

HtmlEntries(rawText) == HtmlLoop(rawText, Landmarks(pattern, rawText), 0, <<>>)

\* variant: findIndex(e => e.number === entry.number), the title ignored
FindIndexByNumber(self, entry) ==
  Min({j \in 1..Len(self) : self[j].number = entry.number})

\* entries.filter((entry, index, self) => index === self.findIndex(...))
FindIndex(self, entry) ==
  Min({j \in 1..Len(self) : self[j].number = entry.number /\ self[j].title = entry.title})

\* variant: index !== self.findIndex(...), the comparison inverted
UniqueEntriesInverted(list) ==
  LET indexed == [i \in 1..Len(list) |-> [entry |-> list[i], index |-> i]]
      Keep(x) == x.index # FindIndex(list, x.entry)
      kept == SelectSeq(indexed, Keep)
  IN  [i \in 1..Len(kept) |-> kept[i].entry]

UniqueEntries(list) ==
  LET indexed == [i \in 1..Len(list) |-> [entry |-> list[i], index |-> i]]
      Keep(x) == x.index = FindIndex(list, x.entry)
      kept == SelectSeq(indexed, Keep)
  IN  [i \in 1..Len(kept) |-> kept[i].entry]

----------------------------------------------------------------------------
(* PDF register path *)

TitleLimit == 500

sections == <<
  [name |-> "NAME CHANGE", header |-> <<"N","A","M","E"," ","C","H","A","N","G","E","S">>],
  [name |-> "CERTIFICATE, PERMIT, LICENSE", header |-> <<"C","E","R","T","I","F","I","C","A","T","E","S",","," ","P","E","R","M","I","T","S"," ","&"," ","L","I","C","E","N","S","E","S">>],
  [name |-> "CERTIFICATE OF REGISTRATION", header |-> <<"C","E","R","T","I","F","I","C","A","T","E","S"," ","O","F"," ","R","E","G","I","S","T","R","A","T","I","O","N">>],
  [name |-> "DISMISSAL", header |-> <<"D","I","S","M","I","S","S","A","L","S">>],
  [name |-> "WITHDRAWAL", header |-> <<"W","I","T","H","D","R","A","W","A","L"," ","O","F"," ","A","P","P","L","I","C","A","T","I","O","N">>],
  [name |-> "REVOCATION", header |-> <<"R","E","V","O","C","A","T","I","O","N","S">>],
  [name |-> "TRANSFERS", header |-> <<"T","R","A","N","S","F","E","R","S">>],
  [name |-> "GRANT DECISION NOTICES", header |-> <<"G","R","A","N","T"," ","D","E","C","I","S","I","O","N"," ","N","O","T","I","C","E","S">>] >>

\* match[2].replace(/\n/g, ' ').replace(/\s+/g, ' ').trim()
PdfTitle(g2) == Trim(CollapseWs(ReplaceNewlines(g2)))

\* the indices at which a section header can start
HeaderStarts(fullText) ==
  Scan(fullText, {sections[i].header[1] : i \in 1..Len(sections)})

\* the text the loop scans for sections[i]; called only when its header occurs
SectionText(fullText, at, i) ==
  LET startIdx == IndexOf(at, fullText, sections[i].header, 0)
      endIdx   == IF i + 1 <= Len(sections)
                  THEN IndexOf(at, fullText, sections[i + 1].header, startIdx)
                  ELSE Len(fullText)
  IN  Substring(fullText, startIdx, IF endIdx = -1 THEN Len(fullText) ELSE endIdx)

\* the inner while loop over one section's text
RECURSIVE SectionLoop(_, _, _, _, _)
SectionLoop(sectionText, marks, lastIndex, name, acc) ==
  LET match == RegexExec(recordPattern, sectionText, marks, lastIndex) IN
  IF match.index = -1 THEN acc
  ELSE LET docket      == match.g1
           title       == PdfTitle(match.g2)
           decidedDate == match.g3
       IN  SectionLoop(sectionText, marks, match.lastIndex, name,
             IF Len(title) > 0 /\ Len(title) < TitleLimit
             THEN Append(acc, [number |-> docket, title |-> title,
                               decided |-> decidedDate, category |-> name])
             ELSE acc)

\* the entries one iteration of the section loop pushes
\* variant: the entries of a section get the name of the section after it
SectionEntriesNextName(fullText, at, i) ==
  IF IndexOf(at, fullText, sections[i].header, 0) = -1 THEN <<>>
  ELSE LET sectionText == SectionText(fullText, at, i)
       IN  SectionLoop(sectionText, Landmarks(recordPattern, sectionText), 0,
                       sections[IF i < Len(sections) THEN i + 1 ELSE i].name, <<>>)

SectionEntries(fullText, at, i) ==
  IF IndexOf(at, fullText, sections[i].header, 0) = -1 THEN <<>>
  ELSE LET sectionText == SectionText(fullText, at, i)
       IN  SectionLoop(sectionText, Landmarks(recordPattern, sectionText), 0,
                       sections[i].name, <<>>)

\* for (let i = 0; i < sections.length; i++) { ... }
RECURSIVE SectionsLoop(_, _, _)
SectionsLoop(fullText, at, i) ==
  IF i > Len(sections) THEN <<>>
  ELSE SectionEntries(fullText, at, i) \o SectionsLoop(fullText, at, i + 1)

\* the express route's fallback pass over the whole text
RECURSIVE FallbackLoop(_, _, _, _)
FallbackLoop(fullText, marks, lastIndex, acc) ==
  LET match == RegexExec(recordPattern, fullText, marks, lastIndex) IN
  IF match.index = -1 THEN acc
  ELSE FallbackLoop(fullText, marks, match.lastIndex,
         Append(acc, [number |-> match.g1, title |-> PdfTitle(match.g2),
                      decided |-> match.g3, category |-> "MISCELLANEOUS"]))

\* variant: no fallback pass, as in the serverless handler
PdfEntriesSectioned(h, fullText) == SectionsLoop(fullText, HeaderStarts(fullText), 1)

PdfEntries(h, fullText) ==
  LET sectioned == SectionsLoop(fullText, HeaderStarts(fullText), 1)
  IN  IF h = "expressPdf" /\ Len(sectioned) = 0
      THEN FallbackLoop(fullText, Landmarks(recordPattern, fullText), 0, <<>>)
      ELSE sectioned

----------------------------------------------------------------------------
(* Date formatting *)

\* variant: dateStr.replace('-', ''), only the first hyphen removed
FormatDateForPDFOnce(dateStr) ==
  LET at == {i \in 1..Len(dateStr) : dateStr[i] = "-"}
  IN  IF at = {} THEN dateStr
      ELSE SubSeq(dateStr, 1, Min(at) - 1) \o SubSeq(dateStr, Min(at) + 1, Len(dateStr))

\* dateStr.replace(/-/g, '')
RECURSIVE FormatDateForPDF(_)
FormatDateForPDF(dateStr) ==
  IF dateStr = <<>> THEN <<>>
  ELSE IF Head(dateStr) = "-" THEN FormatDateForPDF(Tail(dateStr))
       ELSE <<Head(dateStr)>> \o FormatDateForPDF(Tail(dateStr))

DigitChars == <<"0","1","2","3","4","5","6","7","8","9">>

\* String(n) for a natural number
RECURSIVE NumStr(_)
NumStr(n) == IF n < 10 THEN <<DigitChars[n + 1]>>
             ELSE NumStr(n \div 10) \o <<DigitChars[(n % 10) + 1]>>

months == <<<<"J","A","N">>, <<"F","E","B">>, <<"M","A","R">>, <<"A","P","R">>, <<"M","A","Y">>, <<"J","U","N">>,
            <<"J","U","L">>, <<"A","U","G">>, <<"S","E","P">>, <<"O","C","T">>, <<"N","O","V">>, <<"D","E","C">>>>

\* variant: the day without padStart(2, '0')
FormatDateForFMCSAUnpadded(date) ==
  LET y == NumStr(date.year)
  IN  NumStr(date.date) \o <<"-">> \o months[date.month + 1] \o <<"-">>
      \o (IF Len(y) <= 2 THEN y ELSE SubSeq(y, Len(y) - 1, Len(y)))

\* a Date is [year, month (0-based), date]
FormatDateForFMCSA(date) ==
  LET d     == NumStr(date.date)
      day   == IF Len(d) >= 2 THEN d ELSE <<"0">> \o d
      month == months[date.month + 1]
      y     == NumStr(date.year)
      year  == IF Len(y) <= 2 THEN y ELSE SubSeq(y, Len(y) - 1, Len(y))
  IN  day \o <<"-">> \o month \o <<"-">> \o year

----------------------------------------------------------------------------
(* Requests and documents of the model *)

Handlers == {"vercelHtml", "expressHtml", "vercelPdf", "expressPdf"}

IsHtml(h) == h \in {"vercelHtml", "expressHtml"}

IsPdf(h) == h \in {"vercelPdf", "expressPdf"}

IsVercel(h) == h \in {"vercelHtml", "vercelPdf"}

\* req.body.date absent
NoDate == <<"undefined">>

\* variant: only an absent date counts as missing
FalsyAbsentOnly(date) == date = NoDate

\* !date
Falsy(date) == date = NoDate \/ date = <<>>

NoRes == [status |-> 0, body |-> <<>>]

NoFetch == [kind |-> "none"]

NoError == [thrown |-> FALSE]

NoClock == [year |-> 0, month |-> 0, date |-> 0]

NoCarrier == [mcNumber |-> <<>>]

NoPage == [kind |-> "none"]

NoRequest == [pc |-> "none"]

NoDash == [pc |-> "none"]

Now == "lastUpdated"

registerUrl == "https://li-public.fmcsa.dot.gov/LIVIEW/PKG_register.prc_reg_detail"

pdfUrlPrefix == <<"h","t","t","p","s",":","/","/","l","i","-","p","u","b","l","i","c",".","f","m","c","s","a",".","d","o","t",".","g","o","v","/","l","i","h","t","m","l","/","r","p","t","s","p","d","f","/","L","I","_","R","E","G","I","S","T","E","R">>

pdfUrlSuffix == <<".","P","D","F">>

\* cheerio.load(data).text() on the pages of the model: markup (the text
\* from a '<' to the next '>') is dropped, character data is kept
SoupText(data) ==
  LET lt == {i \in 1..Len(data) : data[i] = "<"}
      gt == {i \in 1..Len(data) : data[i] = ">"}
      InTag(i) == \E j \in lt : j <= i /\ \E k \in gt : k >= i /\ \A m \in gt : ~(j < m /\ m < i)
      marked == [i \in 1..Len(data) |-> [ch |-> data[i], tag |-> InTag(i)]]
      Keep(x) == ~x.tag
      kept == SelectSeq(marked, Keep)
  IN  IF lt = {} THEN data ELSE [i \in 1..Len(kept) |-> kept[i].ch]

MaxHtmlLines == 3

MaxPdfLines == 3

MaxEntries == 4

MaxDateLen == 3

Pad(n, c) == [i \in 1..n |-> c]

RECURSIVE JoinLines(_)
JoinLines(ls) == IF ls = <<>> THEN <<>> ELSE Head(ls) \o <<"\n">> \o JoinLines(Tail(ls))

SeqsUpTo(S, n) == UNION {[1..k -> S] : k \in 0..n}

\* lines of the register pages of the model: a record, a docket without a
\* date, a record whose docket is directly followed by a date and whose
\* title has whitespace runs, a docket followed by two spaces and a date,
\* section titles, filler that moves a section title to the edge of the
\* look-back window, and a record with a long title
HtmlLines == {
  <<"M","C","-","1","0","0","0","0","0"," ","S","m","i","t","h"," ","T","r","u","c","k","i","n","g"," ","C","o"," ","0","1","/","0","2","/","2","0","2","4">>,
  <<"M","X","-","9">>,
  <<"M","C","-","1"," ","0","1","/","0","2","/","2","0","2","4"," ","A","b"," "," ","\t","c"," ","0","3","/","0","4","/","2","0","2","5">>,
  <<"F","F","-","4"," "," ","0","1","/","0","2","/","2","0","2","4">>,
  <<"D","i","s","m","i","s","s","a","l","s",":">>,
  <<"R","E","V","O","C","A","T","I","O","N">>,
  Pad(LookBack - 12, "x"),
  <<"F","F","-","3"," ">> \o Pad(TitleLimit, "y") \o <<" ","0","1","/","0","2","/","2","0","2","4">> }

HtmlDocs ==
  {<<"F","M","C","S","A"," ","R","e","g","i","s","t","e","r","\n">> \o JoinLines(ls) : ls \in SeqsUpTo(HtmlLines, MaxHtmlLines)}
    \cup {h \o JoinLines(ls) : h \in {<<>>, <<"<","h","3",">","F","M","C","S","A"," ","R","E","G","I","S","T","E","R","<","/","h","3",">","\n">>},
                                ls \in SeqsUpTo(HtmlLines, 1)}

PdfLines == {
  <<"R","E","V","O","C","A","T","I","O","N","S">>,
  <<"T","R","A","N","S","F","E","R","S">>,
  <<"M","C","-","1"," ","A","b"," ","0","1","/","0","2","/","2","0","2","4">>,
  <<"F","F","-","2"," ","A","b","\n","c"," "," ","d"," ","0","3","/","0","4","/","2","0","2","5">>,
  <<"M","X","-","M","C","-","3"," ">> \o Pad(TitleLimit - 1, "y") \o <<" ","0","1","/","0","2","/","2","0","2","4">>,
  <<"M","C","-","4"," ">> \o Pad(TitleLimit, "y") \o <<" ","0","1","/","0","2","/","2","0","2","4">>,
  <<"M","C","-","5"," "," ","0","1","/","0","2","/","2","0","2","4">> }

PdfDocs == {JoinLines(ls) : ls \in SeqsUpTo(PdfLines, MaxPdfLines)}

Docs(h) == IF IsHtml(h) THEN HtmlDocs ELSE PdfDocs

Methods(h) == IF IsVercel(h) THEN {"POST", "GET", "OPTIONS"} ELSE {"POST"}

\* request dates of the extraction runs
Dates(h) == IF IsHtml(h) THEN {<<"2","0","-","F","E","B","-","2","4">>}
            ELSE {NoDate, <<>>, <<"2","0","2","4","-","0","2","-","2","0">>}

\* request dates of the request runs: absent, empty, ISO dates, and short
\* strings of digits and hyphens
IsoDates ==
  {y \o <<"-">> \o m \o <<"-">> \o d :
     y \in {<<"2","0","2","4">>, <<"1","9","9","9">>},
     m \in {<<"0","1">>, <<"0","2">>, <<"1","0">>, <<"1","2">>},
     d \in {<<"0","1">>, <<"0","9">>, <<"2","0">>, <<"3","1">>}}

ReqDates(h) ==
  IF IsHtml(h) THEN {NoDate, <<>>, <<"2","0","-","F","E","B","-","2","4">>, <<"0","1","-","N","O","V","-","2","6">>}
  ELSE {NoDate} \cup IsoDates \cup SeqsUpTo({"-", "2", "0"}, MaxDateLen)

\* new Date() at the request
Todays == {[year |-> 2024, month |-> 1, date |-> 20],
           [year |-> 2026, month |-> 10, date |-> 1]}

\* documents of the request runs
SmallDocs(h) ==
  IF IsHtml(h)
  THEN {<<>>, <<"F","M","C","S","A"," ","R","e","g","i","s","t","e","r","\n">>, <<"F","M","C","S","A"," ","R","e","g","i","s","t","e","r","\n","M","C","-","1"," ","A","b"," ","0","1","/","0","2","/","2","0","2","4","\n">>,
        <<"M","C","-","1"," ","A","b"," ","0","1","/","0","2","/","2","0","2","4","\n">>, <<"F","M","C","S","A"," ","R","e","g","i","s","t","e","r","\n","M","X","-","9"," ","A","b","\n">>}
  ELSE {<<>>, <<"R","E","V","O","C","A","T","I","O","N","S","\n","M","C","-","1"," ","A","b"," ","0","1","/","0","2","/","2","0","2","4","\n">>, <<"R","E","V","O","C","A","T","I","O","N","S","\n","M","X","-","9"," ","A","b","\n">>}

\* entry lists of the de-duplication runs
SomeEntries ==
  {[number |-> n, title |-> t, decided |-> v.decided, category |-> v.category] :
     n \in {<<"M","C","-","1">>, <<"F","F","-","2">>},
     t \in {<<"A","b">>, <<"A","b"," ","c">>},
     v \in {[decided |-> <<"0","1","/","0","2","/","2","0","2","4">>, category |-> "REVOCATION"],
            [decided |-> <<"0","3","/","0","4","/","2","0","2","5">>, category |-> "MISCELLANEOUS"]}}

Failures == {"timeout of 30000ms exceeded", "Request failed with status code 404"}

----------------------------------------------------------------------------
(* The handlers *)

Init ==
  /\ handler = "none"
  /\ method = "none"
  /\ pc = "idle"
  /\ reqDate = NoDate
  /\ outbound = NoFetch
  /\ doc = <<>>
  /\ page = NoPage
  /\ entries = <<>>
  /\ res = NoRes
  /\ error = NoError
  /\ now = NoClock
  /\ param = <<>>
  /\ carrierData = NoCarrier
  /\ fetches = 0
  /\ emailFetches = 0
  /\ emailError = NoError
  /\ sent = 0
  /\ served = <<>>
  /\ other = NoRequest
  /\ dash = NoDash

\* the handler up to its first await
Request(h, m, date, today) ==
  /\ pc = "idle"
  /\ handler' = h
  /\ method' = m
  /\ reqDate' = date
  /\ UNCHANGED <<doc, page, entries, error, param, carrierData, emailFetches, emailError, served, other, dash>>
  /\ IF IsVercel(h) /\ m = "OPTIONS"
     THEN /\ res' = [status |-> 200, body |-> <<>>]
          /\ outbound' = NoFetch
          /\ pc' = "done"
          /\ sent' = sent + 1
          /\ UNCHANGED <<now, fetches>>
     ELSE IF IsVercel(h) /\ m # "POST"
     THEN /\ res' = [status |-> 405, body |-> [error |-> "Method not allowed"]]
          /\ outbound' = NoFetch
          /\ pc' = "done"
          /\ sent' = sent + 1
          /\ UNCHANGED <<now, fetches>>
     ELSE IF IsPdf(h) /\ Falsy(date)
     THEN /\ res' = [status |-> 400,
                     body |-> [success |-> FALSE, error |-> "Date is required (YYYY-MM-DD)"]]
          /\ outbound' = NoFetch
          /\ pc' = "done"
          /\ sent' = sent + 1
          /\ UNCHANGED <<now, fetches>>
     ELSE IF IsPdf(h)
     THEN /\ outbound' = [kind |-> "GET",
                          url |-> pdfUrlPrefix \o FormatDateForPDF(date) \o pdfUrlSuffix]
          /\ res' = NoRes
          /\ pc' = "fetching"
          /\ fetches' = fetches + 1
          /\ UNCHANGED <<now, sent>>
     ELSE /\ outbound' = [kind |-> "POST", url |-> registerUrl,
                          pd_date |-> IF Falsy(date) THEN FormatDateForFMCSA(today) ELSE date]
          /\ now' = IF Falsy(date) THEN today ELSE now
          /\ res' = NoRes
          /\ pc' = "fetching"
          /\ fetches' = fetches + 1
          /\ UNCHANGED sent

\* variant: an empty result answered as an error
SuccessUnlessEmpty(date, uniqueEntries) ==
  IF uniqueEntries = <<>>
  THEN [status |-> 404,
        body |-> [success |-> FALSE, error |-> "No entries found", entries |-> <<>>]]
  ELSE [status |-> 200,
        body |-> [success |-> TRUE, count |-> Len(uniqueEntries), date |-> date,
                  lastUpdated |-> Now, entries |-> uniqueEntries]]

\* variant: count is the index of the last entry
SuccessCountingFromZero(date, uniqueEntries) ==
  [status |-> 200,
   body |-> [success |-> TRUE, count |-> Max(Len(uniqueEntries) - 1, 0), date |-> date,
             lastUpdated |-> Now, entries |-> uniqueEntries]]

Success(date, uniqueEntries) ==
  [status |-> 200,
   body |-> [success |-> TRUE, count |-> Len(uniqueEntries), date |-> date,
             lastUpdated |-> Now, entries |-> uniqueEntries]]

\* variant: response.data.includes('FMCSA REGISTER')
HasMarkerAsWritten(data) == Includes(Scan(data, {"F"}), data, <<"F","M","C","S","A"," ","R","E","G","I","S","T","E","R">>)

\* response.data.toUpperCase().includes('FMCSA REGISTER')
HasMarker(data) ==
  LET upper == ToUpperCase(data)
  IN  Includes(Scan(upper, {"F"}), upper, <<"F","M","C","S","A"," ","R","E","G","I","S","T","E","R">>)

\* the outbound fetch resolves with `data`; the handler runs to its response
FetchReturn(data) ==
  /\ pc = "fetching"
  /\ doc' = data
  /\ handler \in Handlers
  /\ pc' = "done"
  /\ sent' = sent + 1
  /\ UNCHANGED <<handler, method, reqDate, outbound, page, error, now, param, carrierData,
                 fetches, emailFetches, emailError, served, other, dash>>
  /\ IF IsHtml(handler)
     THEN IF ~HasMarker(data)
          THEN /\ res' = [status |-> 400,
                          body |-> [success |-> FALSE, error |-> "Invalid response from FMCSA",
                                    entries |-> <<>>]]
               /\ entries' = entries
          ELSE LET rawText == SoupText(data)
                   found   == HtmlEntries(rawText)
               IN  /\ entries' = found
                   /\ res' = Success(outbound.pd_date, UniqueEntries(found))
     ELSE LET found == PdfEntries(handler, data)
          IN  /\ entries' = found
              /\ res' = Success(reqDate, UniqueEntries(found))

\* variant: a failed fetch is issued once more before the catch block answers
FetchFailRetry(message) ==
  /\ pc = "fetching"
  /\ handler \in Handlers
  /\ UNCHANGED <<handler, method, reqDate, outbound, doc, page, entries, now, param, carrierData,
                 emailFetches, emailError, served, other, dash>>
  /\ IF fetches < 2
     THEN /\ fetches' = fetches + 1
          /\ UNCHANGED <<pc, res, error, sent>>
     ELSE /\ pc' = "done"
          /\ sent' = sent + 1
          /\ error' = [thrown |-> TRUE, message |-> message]
          /\ res' = [status |-> 500,
                     body |-> [success |-> FALSE, error |-> "Failed to scrape",
                               details |-> message, entries |-> <<>>]]
          /\ UNCHANGED fetches

\* the outbound fetch (or the PDF parse) rejects: the catch block
FetchFail(message) ==
  /\ pc = "fetching"
  /\ handler \in Handlers
  /\ pc' = "done"
  /\ sent' = sent + 1
  /\ error' = [thrown |-> TRUE, message |-> message]
  /\ UNCHANGED <<handler, method, reqDate, outbound, doc, page, entries, now, param, carrierData,
                 fetches, emailFetches, emailError, served, other, dash>>
  /\ res' = IF IsHtml(handler)
            THEN [status |-> 500,
                  body |-> [success |-> FALSE, error |-> "Failed to scrape FMCSA register data",
                            details |-> message, entries |-> <<>>]]
            ELSE [status |-> 500,
                  body |-> [success |-> FALSE,
                            error |-> "Failed to scrape FMCSA PDF. The file might not be generated yet for this date.",
                            details |-> message]]

(* The scrape routes of the express server: carrier, safety, insurance *)

Scrapers == {"carrier", "safety", "insurance"}

\* req.params.mcNumber / req.params.dotNumber
ScrapeIds == {<<"1","2","3","4","5","6">>, <<"7">>}

\* the url of the primary fetch: a fixed text around the identifier
ScrapeUrl(h, id) ==
  IF h = "carrier"
  THEN <<"https://safer.fmcsa.dot.gov/query.asp?searchtype=ANY&query_type=queryCarrierSnapshot&query_param=MC_MX&query_string=", id>>
  ELSE IF h = "safety"
  THEN <<"https://ai.fmcsa.dot.gov/SMS/Carrier/", id, "/CompleteProfile.aspx">>
  ELSE <<"https://searchcarriers.com/company/", id, "/insurances">>

\* a response body on which the parsing code throws
Unparseable == [kind |-> "unparseable"]

ParseFailure == "Cannot read properties of null"

\* carrier pages as cheerio sees them: the number of <center> elements and
\* the values findValueByLabel finds behind two of the labels
CarrierPages ==
  {[kind |-> "page", centers |-> c, dotNumber |-> d, legalName |-> <<"A","b"," ","C","o">>] :
     c \in {0, 1}, d \in {<<>>, <<"2","2","3","3">>}}

\* registration pages: the address behind the Email: label ('' when the
\* page shows none)
EmailPages == {[kind |-> "page", email |-> e] : e \in {<<>>, <<"a","@","b",".","c","o">>}}

\* safety pages: the text of #Rating (NoElement when the page has none);
\* the pages of the model have no score rows and no out-of-service table
NoElement == <<"no element">>

SafetyPages == {[kind |-> "page", rating |-> r] : r \in {NoElement, <<"S","a","t","i","s","f","a","c","t","o","r","y">>}}

\* insurance answers: response.data.data, an empty list of policies here
InsurancePages == {[kind |-> "page", data |-> <<>>]}

ScrapePages(h) ==
  (IF h = "carrier" THEN CarrierPages
   ELSE IF h = "safety" THEN SafetyPages
   ELSE InsurancePages) \cup {Unparseable}

ScrapeFailures == {"timeout of 15000ms exceeded", "Request failed with status code 403"}

EmailFailures == {"timeout of 10000ms exceeded"}

\* the route up to `await axios.get(url, ...)`
ScrapeRequest(h, id) ==
  /\ pc = "idle"
  /\ handler' = h
  /\ method' = "GET"
  /\ param' = id
  /\ outbound' = [kind |-> "GET", url |-> ScrapeUrl(h, id)]
  /\ fetches' = fetches + 1
  /\ pc' = "fetching"
  /\ UNCHANGED <<reqDate, doc, page, entries, res, error, now, carrierData, emailFetches, emailError, sent,
                 served, other, dash>>

\* the catch block of a scrape route
ScrapeCaught(h, message) ==
  [status |-> 500,
   body |-> [error |-> IF h = "carrier" THEN "Failed to scrape carrier data"
                       ELSE IF h = "safety" THEN "Failed to scrape safety data"
                       ELSE "Failed to scrape insurance data",
             details |-> message]]

\* variant: the carrier is taken as found when the page shows a USDOT number
CarrierFoundByDot(data) == data.dotNumber # <<>>

\* $('center').length
CarrierFound(data) == data.centers > 0

\* const carrierData = { mcNumber, dotNumber: findValueByLabel(...), ..., email: '' }
CarrierRecord(mcNumber, data) ==
  [mcNumber |-> mcNumber, dotNumber |-> data.dotNumber, legalName |-> data.legalName,
   email |-> <<>>]

\* the primary fetch resolves with `data`: the route runs to its response,
\* or, on the carrier route, to the await of the email fetch
ScrapeReturn(data) ==
  /\ pc = "fetching"
  /\ handler \in Scrapers
  /\ page' = data
  /\ UNCHANGED <<handler, method, reqDate, outbound, doc, entries, now, param, fetches, served,
                 other, dash>>
  /\ IF data = Unparseable
     THEN /\ error' = [thrown |-> TRUE, message |-> ParseFailure]
          /\ res' = ScrapeCaught(handler, ParseFailure)
          /\ pc' = "done"
          /\ sent' = sent + 1
          /\ UNCHANGED <<carrierData, emailFetches, emailError>>
     ELSE IF handler = "carrier" /\ ~CarrierFound(data)
     THEN /\ res' = [status |-> 404, body |-> [error |-> "Carrier not found"]]
          /\ pc' = "done"
          /\ sent' = sent + 1
          /\ UNCHANGED <<error, carrierData, emailFetches, emailError>>
     ELSE IF handler = "carrier" /\ CarrierRecord(param, data).dotNumber # <<>>
     THEN /\ carrierData' = CarrierRecord(param, data)
          /\ emailFetches' = emailFetches + 1
          /\ pc' = "emailing"
          /\ UNCHANGED <<res, error, sent, emailError>>
     ELSE IF handler = "carrier"
     THEN /\ carrierData' = CarrierRecord(param, data)
          /\ res' = [status |-> 200, body |-> CarrierRecord(param, data)]
          /\ pc' = "done"
          /\ sent' = sent + 1
          /\ UNCHANGED <<error, emailFetches, emailError>>
     ELSE IF handler = "safety"
     THEN /\ res' = [status |-> 200,
                     body |-> [rating |-> IF data.rating = NoElement THEN <<"N","/","A">>
                                          ELSE data.rating,
                               ratingDate |-> <<"N","/","A">>,
                               basicScores |-> <<>>, oosRates |-> <<>>]]
          /\ pc' = "done"
          /\ sent' = sent + 1
          /\ UNCHANGED <<error, carrierData, emailFetches, emailError>>
     ELSE /\ res' = [status |-> 200, body |-> [policies |-> <<>>, raw |-> data]]
          /\ pc' = "done"
          /\ sent' = sent + 1
          /\ UNCHANGED <<error, carrierData, emailFetches, emailError>>

\* variant: a catch block that logs the error and sends nothing
ScrapeFailUnanswered(message) ==
  /\ pc = "fetching"
  /\ handler \in Scrapers
  /\ error' = [thrown |-> TRUE, message |-> message]
  /\ pc' = "done"
  /\ UNCHANGED <<handler, method, reqDate, outbound, doc, page, entries, res, now, param,
                 carrierData, fetches, emailFetches, emailError, sent, served, other, dash>>

\* the primary fetch rejects: the catch block
ScrapeFail(message) ==
  /\ pc = "fetching"
  /\ handler \in Scrapers
  /\ error' = [thrown |-> TRUE, message |-> message]
  /\ res' = ScrapeCaught(handler, message)
  /\ pc' = "done"
  /\ sent' = sent + 1
  /\ UNCHANGED <<handler, method, reqDate, outbound, doc, page, entries, now, param, carrierData,
                 fetches, emailFetches, emailError, served, other, dash>>

\* the email fetch resolves: the address is read inside the inner try, a
\* throw of that parsing is caught there; then res.json(carrierData)
EmailReturn(data) ==
  /\ pc = "emailing"
  /\ carrierData' = IF data = Unparseable THEN carrierData
                    ELSE [carrierData EXCEPT !.email = data.email]
  /\ emailError' = IF data = Unparseable THEN [thrown |-> TRUE, message |-> ParseFailure]
                   ELSE emailError
  /\ res' = [status |-> 200, body |-> carrierData']
  /\ pc' = "done"
  /\ sent' = sent + 1
  /\ UNCHANGED <<handler, method, reqDate, outbound, doc, page, entries, error, now, param,
                 fetches, emailFetches, served, other, dash>>

\* variant: the failure of the email fetch reaches the outer catch
EmailFailThrows(message) ==
  /\ pc = "emailing"
  /\ error' = [thrown |-> TRUE, message |-> message]
  /\ res' = ScrapeCaught(handler, message)
  /\ pc' = "done"
  /\ sent' = sent + 1
  /\ UNCHANGED <<handler, method, reqDate, outbound, doc, page, entries, now, param, carrierData,
                 fetches, emailFetches, emailError, served, other, dash>>

\* the email fetch rejects: the inner catch logs it; then res.json(carrierData)
EmailFail(message) ==
  /\ pc = "emailing"
  /\ emailError' = [thrown |-> TRUE, message |-> message]
  /\ res' = [status |-> 200, body |-> carrierData]
  /\ pc' = "done"
  /\ sent' = sent + 1
  /\ UNCHANGED <<handler, method, reqDate, outbound, doc, page, entries, error, now, param,
                 carrierData, fetches, emailFetches, served, other, dash>>

----------------------------------------------------------------------------
(* Specifications *)

Next ==
  \/ \E h \in Handlers : \E m \in Methods(h) : \E date \in Dates(h) : \E today \in Todays :
       Request(h, m, date, today)
  \/ \E data \in Docs(handler) : FetchReturn(data)
  \/ \E message \in Failures : FetchFail(message)

Spec == Init /\ [][Next]_vars

\* the handlers on every kind of request, over a few documents
NextReq ==
  \/ \E h \in Handlers : \E m \in Methods(h) : \E date \in ReqDates(h) : \E today \in Todays :
       Request(h, m, date, today)
  \/ \E data \in SmallDocs(handler) : FetchReturn(data)
  \/ \E message \in Failures : FetchFail(message)
  \/ \E h \in Scrapers : \E id \in ScrapeIds : ScrapeRequest(h, id)
  \/ \E data \in ScrapePages(handler) : ScrapeReturn(data)
  \/ \E message \in ScrapeFailures : ScrapeFail(message)
  \/ \E data \in EmailPages \cup {Unparseable} : EmailReturn(data)
  \/ \E message \in EmailFailures : EmailFail(message)

SpecReq == Init /\ [][NextReq]_vars

\* the de-duplication filter on its own: applied to an entry list, and
\* applied again to its own result
InitDedup ==
  /\ handler = "none"
  /\ method = "none"
  /\ pc = "entries"
  /\ reqDate = NoDate
  /\ outbound = NoFetch
  /\ doc = <<>>
  /\ page = NoPage
  /\ entries \in SeqsUpTo(SomeEntries, MaxEntries)
  /\ res = NoRes
  /\ error = NoError
  /\ now = NoClock
  /\ param = <<>>
  /\ carrierData = NoCarrier
  /\ fetches = 0
  /\ emailFetches = 0
  /\ emailError = NoError
  /\ sent = 0
  /\ served = <<>>
  /\ other = NoRequest
  /\ dash = NoDash

Filter ==
  /\ pc = "entries"
  /\ pc' = "filtered"
  /\ res' = [status |-> 0, body |-> [entries |-> UniqueEntries(entries)]]
  /\ UNCHANGED <<handler, method, reqDate, outbound, doc, page, entries, error, now, param,
                 carrierData, fetches, emailFetches, emailError, sent, served, other, dash>>

FilterAgain ==
  /\ pc = "filtered"
  /\ pc' = "refiltered"
  /\ entries' = res.body.entries
  /\ res' = [status |-> 0, body |-> [entries |-> UniqueEntries(res.body.entries)]]
  /\ UNCHANGED <<handler, method, reqDate, outbound, doc, page, error, now, param, carrierData,
                 fetches, emailFetches, emailError, sent, served, other, dash>>

NextDedup == Filter \/ FilterAgain

SpecDedup == InitDedup /\ [][NextDedup]_vars

----------------------------------------------------------------------------
(* The dashboard component: fetchRegisterData of the register page
   ("page") and of the PDF register page ("pdfPage") *)

\* the number a string of decimal digits writes
RECURSIVE ToNumber(_)
ToNumber(s) ==
  IF s = <<>> THEN 0
  ELSE 10 * ToNumber(SubSeq(s, 1, Len(s) - 1))
       + (CHOOSE k \in 0..9 : DigitChars[k + 1] = s[Len(s)])

IsLeap(year) == (year % 4 = 0 /\ year % 100 # 0) \/ year % 400 = 0

\* month is 0-based
DaysInMonth(year, month) ==
  IF month = 1 THEN (IF IsLeap(year) THEN 29 ELSE 28)
  ELSE IF month \in {3, 5, 8, 10} THEN 30 ELSE 31

\* a Date whose time value is NaN
InvalidDate == [year |-> -1, month |-> -1, date |-> -1]

\* new Date(dateStr + 'T00:00:00Z') read through getUTCFullYear, getUTCMonth
\* and getUTCDate: the fields of a YYYY-MM-DD calendar date, NaN otherwise
DateFields(dateStr) ==
  IF /\ Len(dateStr) = 10
     /\ dateStr[5] = "-" /\ dateStr[8] = "-"
     /\ \A i \in {1, 2, 3, 4, 6, 7, 9, 10} : dateStr[i] \in Digits
  THEN LET year  == ToNumber(SubSeq(dateStr, 1, 4))
           month == ToNumber(SubSeq(dateStr, 6, 7))
           date  == ToNumber(SubSeq(dateStr, 9, 10))
       IN  IF month \in 1..12 /\ date >= 1 /\ date <= DaysInMonth(year, month - 1)
           THEN [year |-> year, month |-> month - 1, date |-> date]
           ELSE InvalidDate
  ELSE InvalidDate

FormatDateForAPI(dateStr) ==
  LET date == DateFields(dateStr)
  IN  IF date = InvalidDate THEN <<"N","a","N","-","u","n","d","e","f","i","n","e","d","-","N","a","N">>
      ELSE LET d     == NumStr(date.date)
               day   == IF Len(d) >= 2 THEN d ELSE <<"0">> \o d
               month == months[date.month + 1]
               y     == NumStr(date.year)
               year  == IF Len(y) <= 2 THEN y ELSE SubSeq(y, Len(y) - 1, Len(y))
           IN  day \o <<"-">> \o month \o <<"-">> \o year

Years == {2009, 2024}

MonthDays == {1, 9, 10, 20, 28, 29, 30, 31}

\* the calendar dates of the model, as Date fields
CalendarDates ==
  {d \in [year : Years, month : 0..11, date : MonthDays] :
     d.date <= DaysInMonth(d.year, d.month)}

\* a calendar date as the date input writes it
IsoOf(d) ==
  LET m == NumStr(d.month + 1)
      n == NumStr(d.date)
  IN  NumStr(d.year) \o <<"-">> \o (IF Len(m) = 1 THEN <<"0">> \o m ELSE m)
      \o <<"-">> \o (IF Len(n) = 1 THEN <<"0">> \o n ELSE n)

\* values of the date input: a calendar date, or '' when it was cleared
SelectedDates == {IsoOf(d) : d \in CalendarDates} \cup {<<>>}

Variants == {"page", "pdfPage"}

LoadedEntry == [number |-> <<"M","C","-","7">>, title |-> <<"O","l","d">>, decided |-> <<"0","1","/","0","2","/","2","0","2","4">>,
                category |-> "MISCELLANEOUS"]

\* the component before a fetch: freshly mounted, or showing rows loaded
\* from the database; the error and lastUpdated texts are kept as the
\* tuple of their parts, '' being the empty tuple
DashStates ==
  {[variant |-> v, pc |-> "ready", selectedDate |-> s, registerData |-> l.registerData,
    lastUpdated |-> l.lastUpdated, error |-> <<>>, isLoading |-> FALSE, saves |-> <<>>,
    request |-> NoRequest, response |-> NoRes] :
     v \in Variants, s \in SelectedDates,
     l \in {[registerData |-> <<>>, lastUpdated |-> <<>>],
            [registerData |-> <<LoadedEntry>>, lastUpdated |-> <<"Loaded from DB">>]}}

InitDash ==
  /\ handler = "none"
  /\ method = "none"
  /\ pc = "idle"
  /\ reqDate = NoDate
  /\ outbound = NoFetch
  /\ doc = <<>>
  /\ page = NoPage
  /\ entries = <<>>
  /\ res = NoRes
  /\ error = NoError
  /\ now = NoClock
  /\ param = <<>>
  /\ carrierData = NoCarrier
  /\ fetches = 0
  /\ emailFetches = 0
  /\ emailError = NoError
  /\ sent = 0
  /\ served = <<>>
  /\ other = NoRequest
  /\ dash \in DashStates \cup {NoDash}

\* fetchRegisterData up to `await fetch(apiUrl, ...)`; h is the handler
\* deployed behind /api/fmcsa-register
DashFetch(h) ==
  /\ dash.pc = "ready"
  /\ dash' = [dash EXCEPT
                !.pc = "awaiting",
                !.isLoading = TRUE,
                !.error = <<>>,
                !.request = [handler |-> h,
                             date |-> IF dash.variant = "page"
                                      THEN FormatDateForAPI(dash.selectedDate)
                                      ELSE dash.selectedDate]]
  /\ UNCHANGED <<handler, method, pc, reqDate, outbound, doc, page, entries, res, error, now,
                 param, carrierData, fetches, emailFetches, emailError, sent, served, other>>

\* err.message || fallback
MessageOr(message, fallback) == IF message = <<>> THEN <<fallback>> ELSE message

\* the catch and finally blocks of fetchRegisterData
DashCatch(message) ==
  IF dash.variant = "page"
  THEN [dash EXCEPT !.pc = "settled", !.isLoading = FALSE,
                    !.error = MessageOr(message, "Unable to fetch live register data."),
                    !.registerData = <<>>]
  ELSE [dash EXCEPT !.pc = "settled", !.isLoading = FALSE,
                    !.error = MessageOr(message, "Unable to fetch PDF data.")]

\* variant: the emptiness test on data.entries left out
Loadable(data) == "success" \in DOMAIN data /\ data.success /\ "entries" \in DOMAIN data

\* data.success && data.entries && data.entries.length > 0
HasEntries(data) ==
  /\ "success" \in DOMAIN data /\ data.success
  /\ "entries" \in DOMAIN data /\ Len(data.entries) > 0

\* a response body that is not JSON; response.json() rejects on it
NotJson == [notJson |-> TRUE]

JsonFailure == "Unexpected token < in JSON at position 0"

\* fetchRegisterData from the response on
DashSettle(response) ==
  LET data == response.body
  IN  IF ~(response.status \in 200..299)
      THEN IF dash.variant = "page"
           THEN DashCatch(<<"API returned", response.status>>)
           ELSE DashCatch(IF "error" \in DOMAIN data /\ data.error # ""
                          THEN <<data.error>>
                          ELSE <<"Server error", response.status>>)
      ELSE IF data = NotJson
      THEN DashCatch(<<JsonFailure>>)
      ELSE IF HasEntries(data)
      THEN [dash EXCEPT
              !.pc = "settled", !.isLoading = FALSE,
              !.registerData = data.entries,
              !.lastUpdated = IF dash.variant = "page" THEN <<"Live">>
                              ELSE <<"Live PDF", data.count>>,
              !.saves = Append(dash.saves, [entries |-> data.entries,
                                            fetchDate |-> dash.selectedDate])]
      ELSE DashCatch(IF dash.variant = "page" THEN <<"No entries found for this date">>
                     ELSE <<"No entries found in PDF for this date.">>)

\* answers that do not come from a handler of this repository: a gateway
\* timeout page, and another backend's 200 answers without rows
ForeignResponses ==
  {[status |-> 504, body |-> NotJson],
   [status |-> 200, body |-> NotJson],
   [status |-> 200, body |-> [success |-> FALSE, error |-> "No data", entries |-> <<>>]],
   [status |-> 200, body |-> [success |-> TRUE, count |-> 0]]}

\* a response reaches the component: the handler's, or a foreign one when
\* the request did not reach a handler
DashReceive(response) ==
  /\ dash.pc = "awaiting"
  /\ pc = IF response = res THEN "done" ELSE "idle"
  /\ dash' = [DashSettle(response) EXCEPT !.response = response]
  /\ UNCHANGED <<handler, method, pc, reqDate, outbound, doc, page, entries, res, error, now,
                 param, carrierData, fetches, emailFetches, emailError, sent, served, other>>

\* fetch() rejects: the request never reached a handler
DashFetchFail(message) ==
  /\ dash.pc = "awaiting"
  /\ pc = "idle"
  /\ dash' = DashCatch(message)
  /\ UNCHANGED <<handler, method, pc, reqDate, outbound, doc, page, entries, res, error, now,
                 param, carrierData, fetches, emailFetches, emailError, sent, served, other>>

NextDash ==
  \/ \E h \in Handlers : DashFetch(h)
  \/ \E today \in Todays :
       dash.pc = "awaiting" /\ Request(dash.request.handler, "POST", dash.request.date, today)
  \/ \E h \in {"vercelHtml", "expressHtml"} : \E today \in CalendarDates :
       dash = NoDash /\ Request(h, "POST", NoDate, today)
  \/ \E data \in SmallDocs(handler) : FetchReturn(data)
  \/ \E message \in Failures : FetchFail(message)
  \/ DashReceive(res)
  \/ \E response \in ForeignResponses : DashReceive(response)
  \/ DashFetchFail(<<"Failed to fetch">>)

SpecDash == InitDash /\ [][NextDash]_vars

----------------------------------------------------------------------------
(* Two requests in flight: the event loop runs one handler up to its next
   await, the other one is suspended there *)

\* the variables a handler invocation holds: its request, its locals, its
\* response object
Locals ==
  [handler |-> handler, method |-> method, pc |-> pc, reqDate |-> reqDate,
   outbound |-> outbound, doc |-> doc, page |-> page, entries |-> entries, res |-> res, error |-> error,
   now |-> now, param |-> param, carrierData |-> carrierData, fetches |-> fetches,
   emailFetches |-> emailFetches, emailError |-> emailError, sent |-> sent]

\* an invocation that has not started
IdleRequest ==
  [handler |-> "none", method |-> "none", pc |-> "idle", reqDate |-> NoDate,
   outbound |-> NoFetch, doc |-> <<>>, page |-> NoPage, entries |-> <<>>, res |-> NoRes, error |-> NoError,
   now |-> NoClock, param |-> <<>>, carrierData |-> NoCarrier, fetches |-> 0,
   emailFetches |-> 0, emailError |-> NoError, sent |-> 0]

ConcDates(h) == IF IsHtml(h) THEN {NoDate, <<"2","0","-","F","E","B","-","2","4">>} ELSE {NoDate, <<"2","0","2","4","-","0","2","-","2","0">>}

ConcDocs(h) ==
  IF IsHtml(h) THEN {<<>>, <<"F","M","C","S","A"," ","R","e","g","i","s","t","e","r","\n","M","C","-","1"," ","A","b"," ","0","1","/","0","2","/","2","0","2","4","\n">>}
  ELSE {<<>>, <<"R","E","V","O","C","A","T","I","O","N","S","\n","M","C","-","1"," ","A","b"," ","0","1","/","0","2","/","2","0","2","4","\n">>}

InitConc ==
  /\ handler = "none"
  /\ method = "none"
  /\ pc = "idle"
  /\ reqDate = NoDate
  /\ outbound = NoFetch
  /\ doc = <<>>
  /\ page = NoPage
  /\ entries = <<>>
  /\ res = NoRes
  /\ error = NoError
  /\ now = NoClock
  /\ param = <<>>
  /\ carrierData = NoCarrier
  /\ fetches = 0
  /\ emailFetches = 0
  /\ emailError = NoError
  /\ sent = 0
  /\ served = <<>>
  /\ other = IdleRequest
  /\ dash = NoDash

\* variant: registerDate is one module-level binding; an invocation that
\* resumes finds in it the date the other one wrote
SwitchSharingRegisterDate ==
  /\ other # NoRequest
  /\ other' = Locals
  /\ handler' = other.handler
  /\ method' = other.method
  /\ pc' = other.pc
  /\ reqDate' = other.reqDate
  /\ outbound' = IF "pd_date" \in DOMAIN outbound /\ "pd_date" \in DOMAIN other.outbound
                 THEN [other.outbound EXCEPT !.pd_date = outbound.pd_date]
                 ELSE other.outbound
  /\ doc' = other.doc
  /\ page' = other.page
  /\ entries' = other.entries
  /\ res' = other.res
  /\ error' = other.error
  /\ now' = other.now
  /\ param' = other.param
  /\ carrierData' = other.carrierData
  /\ fetches' = other.fetches
  /\ emailFetches' = other.emailFetches
  /\ emailError' = other.emailError
  /\ sent' = other.sent
  /\ UNCHANGED <<served, dash>>

\* the running handler is at an await (or has not started, or has
\* answered): the event loop turns to the other invocation, each with its
\* own variables
Switch ==
  /\ other # NoRequest
  /\ other' = Locals
  /\ handler' = other.handler
  /\ method' = other.method
  /\ pc' = other.pc
  /\ reqDate' = other.reqDate
  /\ outbound' = other.outbound
  /\ doc' = other.doc
  /\ page' = other.page
  /\ entries' = other.entries
  /\ res' = other.res
  /\ error' = other.error
  /\ now' = other.now
  /\ param' = other.param
  /\ carrierData' = other.carrierData
  /\ fetches' = other.fetches
  /\ emailFetches' = other.emailFetches
  /\ emailError' = other.emailError
  /\ sent' = other.sent
  /\ UNCHANGED <<served, dash>>

NextConc ==
  \/ \E h \in Handlers : \E date \in ConcDates(h) : \E today \in Todays :
       Request(h, "POST", date, today)
  \/ \E data \in ConcDocs(handler) : FetchReturn(data)
  \/ \E message \in Failures : FetchFail(message)
  \/ Switch

SpecConc == InitConc /\ [][NextConc]_vars

----------------------------------------------------------------------------
(* A server that takes one request after another, its outbound fetches
   settling in the end *)

MaxServed == 2

\* the handler has returned; the server takes the next request with fresh
\* locals
Accept ==
  /\ pc = "done"
  /\ Len(served) < MaxServed
  /\ served' = Append(served, res.status)
  /\ handler' = IdleRequest.handler
  /\ method' = IdleRequest.method
  /\ pc' = IdleRequest.pc
  /\ reqDate' = IdleRequest.reqDate
  /\ outbound' = IdleRequest.outbound
  /\ doc' = IdleRequest.doc
  /\ page' = IdleRequest.page
  /\ entries' = IdleRequest.entries
  /\ res' = IdleRequest.res
  /\ error' = IdleRequest.error
  /\ now' = IdleRequest.now
  /\ param' = IdleRequest.param
  /\ carrierData' = IdleRequest.carrierData
  /\ fetches' = IdleRequest.fetches
  /\ emailFetches' = IdleRequest.emailFetches
  /\ emailError' = IdleRequest.emailError
  /\ sent' = IdleRequest.sent
  /\ UNCHANGED <<other, dash>>

\* the primary fetch of the request settles: it resolves or it rejects
\* (axios is given a timeout on every call)
FetchSettles ==
  \/ \E data \in ConcDocs(handler) : FetchReturn(data)
  \/ \E message \in Failures : FetchFail(message)
  \/ \E data \in ScrapePages(handler) : ScrapeReturn(data)
  \/ \E message \in ScrapeFailures : ScrapeFail(message)

\* the email fetch settles
EmailSettles ==
  \/ \E data \in EmailPages \cup {Unparseable} : EmailReturn(data)
  \/ \E message \in EmailFailures : EmailFail(message)

NextLive ==
  \/ \E h \in Handlers : \E m \in Methods(h) : \E date \in ConcDates(h) : \E today \in Todays :
       Request(h, m, date, today)
  \/ \E h \in Scrapers : \E id \in ScrapeIds : ScrapeRequest(h, id)
  \/ FetchSettles
  \/ EmailSettles
  \/ Accept

SpecLive ==
  Init /\ [][NextLive]_vars /\ WF_vars(FetchSettles) /\ WF_vars(EmailSettles)

----------------------------------------------------------------------------
(* The register page as a component: database loads, live fetches, saves   *)
(* and reset timers in flight, the user changing the date in between       *)

MaxStarts == 2

\* the variables of the server, which the component does not touch
serverVars ==
  <<handler, method, pc, reqDate, outbound, doc, page, entries, res, error, now,
    param, carrierData, fetches, emailFetches, emailError, sent, served, other>>

\* values of the date input
PageDates == {<<"2","0","2","4","-","0","2","-","2","0">>, <<"2","0","2","4","-","0","2","-","2","1">>}

\* the register of a date, as the database and the live endpoint hold it
RowsOf(date) ==
  IF date = <<"2","0","2","4","-","0","2","-","2","0">>
  THEN <<[number |-> <<"M","C","-","1">>, title |-> <<"A","b">>, decided |-> <<"0","2","/","2","0","/","2","0","2","4">>,
          category |-> "REVOCATION"]>>
  ELSE <<[number |-> <<"F","F","-","2">>, title |-> <<"C","d">>, decided |-> <<"0","2","/","2","1","/","2","0","2","4">>,
          category |-> "DISMISSAL"]>>

NoLive == [dateToUse |-> <<>>, date |-> <<>>, by |-> "none"]

\* the component after its first render, before the mount effect
PageStates ==
  {[variant |-> v, mounted |-> FALSE, started |-> 0, selectedDate |-> s,
    selectedCategory |-> "all", searchTerm |-> <<>>,
    registerData |-> <<>>, isLoading |-> FALSE, lastUpdated |-> <<>>, error |-> <<>>,
    saveStatus |-> "idle", loads |-> <<>>, lives |-> <<>>, saving |-> <<>>, timers |-> 0,
    saves |-> <<>>, request |-> NoLive, response |-> NoRes] :
     v \in Variants, s \in PageDates}

InitPage ==
  /\ handler = "none"
  /\ method = "none"
  /\ pc = "idle"
  /\ reqDate = NoDate
  /\ outbound = NoFetch
  /\ doc = <<>>
  /\ page = NoPage
  /\ entries = <<>>
  /\ res = NoRes
  /\ error = NoError
  /\ now = NoClock
  /\ param = <<>>
  /\ carrierData = NoCarrier
  /\ fetches = 0
  /\ emailFetches = 0
  /\ emailError = NoError
  /\ sent = 0
  /\ served = <<>>
  /\ other = NoRequest
  /\ dash \in PageStates

Without(s, i) == SubSeq(s, 1, i - 1) \o SubSeq(s, i + 1, Len(s))

\* loadFromSupabase up to `await fetchFMCSARegisterEntries(...)`;
\* dateOverride is <<>> when the argument is absent
LoadBegin(d, dateOverride) ==
  [d EXCEPT
     !.isLoading = TRUE,
     !.error = IF d.variant = "pdfPage" THEN <<>> ELSE @,
     !.loads = Append(@, [dateToUse |-> IF d.variant = "pdfPage" /\ dateOverride # <<>>
                                        THEN dateOverride ELSE d.selectedDate,
                          override |-> dateOverride # <<>>])]

\* fetchRegisterData up to `await fetch(apiUrl, ...)`, called in a render
\* whose selectedDate is dateToUse
FetchBegin(d, dateToUse, by) ==
  [d EXCEPT
     !.isLoading = TRUE,
     !.error = <<>>,
     !.lives = Append(@, [dateToUse |-> dateToUse,
                          date |-> IF d.variant = "page" THEN FormatDateForAPI(dateToUse)
                                   ELSE dateToUse,
                          by |-> by])]

\* useEffect(() => { loadFromSupabase(); }, [])
Mount ==
  /\ ~dash.mounted
  /\ dash' = LoadBegin([dash EXCEPT !.mounted = TRUE], <<>>)
  /\ UNCHANGED serverVars

\* the 'Load from database' button of the page
ClickLoad ==
  /\ dash.mounted /\ dash.variant = "page" /\ dash.started < MaxStarts
  /\ dash' = LoadBegin([dash EXCEPT !.started = @ + 1], <<>>)
  /\ UNCHANGED serverVars

\* onChange of the date input
ChangeDate(value) ==
  /\ dash.mounted /\ dash.started < MaxStarts
  /\ value # dash.selectedDate
  /\ dash' = IF dash.variant = "page"
             THEN [dash EXCEPT !.started = @ + 1, !.selectedDate = value]
             ELSE LoadBegin([dash EXCEPT !.started = @ + 1, !.selectedDate = value], value)
  /\ UNCHANGED serverVars

\* the 'Fetch Live' button, disabled while isLoading
ClickFetch ==
  /\ dash.mounted /\ dash.started < MaxStarts
  /\ ~dash.isLoading
  /\ dash' = FetchBegin([dash EXCEPT !.started = @ + 1], dash.selectedDate, "button")
  /\ UNCHANGED serverVars

\* loadFromSupabase from the resolved query on; it = the load, already
\* taken out of d.loads
LoadSettle(d, it, rows) ==
  IF Len(rows) > 0
  THEN [d EXCEPT !.registerData = rows,
                 !.lastUpdated = IF d.variant = "page" THEN <<"Loaded from DB">> ELSE <<"DB">>,
                 !.isLoading = FALSE]
  ELSE IF d.variant = "page"
  THEN [FetchBegin(d, it.dateToUse, "load") EXCEPT !.isLoading = FALSE]
  ELSE [d EXCEPT !.registerData = <<>>,
                 !.lastUpdated = <<>>,
                 !.error = IF it.override
                           THEN <<"No records in database for this date. Click \"Fetch Live PDF\" to scrape.">>
                           ELSE @,
                 !.isLoading = FALSE]

LoadReturn(i, rows) ==
  /\ i \in 1..Len(dash.loads)
  /\ dash' = LoadSettle([dash EXCEPT !.loads = Without(@, i)], dash.loads[i], rows)
  /\ UNCHANGED serverVars

\* the query rejects: the catch and finally blocks of loadFromSupabase
LoadFail(i) ==
  /\ i \in 1..Len(dash.loads)
  /\ LET d == [dash EXCEPT !.loads = Without(@, i)] IN
     dash' = IF dash.variant = "page"
             THEN [FetchBegin(d, dash.loads[i].dateToUse, "load") EXCEPT !.isLoading = FALSE]
             ELSE [d EXCEPT !.error = <<"Database connection issue.">>, !.isLoading = FALSE]
  /\ UNCHANGED serverVars

\* the catch and finally blocks of fetchRegisterData
LiveCatch(d, message) ==
  IF d.variant = "page"
  THEN [d EXCEPT !.error = MessageOr(message, "Unable to fetch live register data."),
                 !.registerData = <<>>, !.isLoading = FALSE]
  ELSE [d EXCEPT !.error = MessageOr(message, "Unable to fetch PDF data."),
                 !.isLoading = FALSE]

\* variant: saved under the date that is selected when the response arrives
SaveBeginSelected(d, list, fetchDate) ==
  [d EXCEPT !.saveStatus = "saving",
            !.saving = Append(@, [entries |-> list, fetchDate |-> d.selectedDate]),
            !.saves = Append(@, [entries |-> list, fetchDate |-> d.selectedDate])]

\* saveToSupabase up to `await saveFMCSARegisterEntries(...)`
SaveBegin(d, list, fetchDate) ==
  [d EXCEPT !.saveStatus = "saving",
            !.saving = Append(@, [entries |-> list, fetchDate |-> fetchDate]),
            !.saves = Append(@, [entries |-> list, fetchDate |-> fetchDate])]

\* fetchRegisterData from the response on; it = the fetch, already taken
\* out of d.lives
LiveSettle(d, it, response) ==
  LET data == response.body
  IN  IF ~(response.status \in 200..299)
      THEN IF d.variant = "page"
           THEN LiveCatch(d, <<"API returned", response.status>>)
           ELSE LiveCatch(d, IF "error" \in DOMAIN data /\ data.error # ""
                             THEN <<data.error>>
                             ELSE <<"Server error", response.status>>)
      ELSE IF HasEntries(data)
      THEN [SaveBegin([d EXCEPT
                         !.registerData = data.entries,
                         !.lastUpdated = IF d.variant = "page" THEN <<"Live">>
                                         ELSE <<"Live PDF", data.count>>],
                      data.entries, it.dateToUse)
              EXCEPT !.isLoading = FALSE]
      ELSE LiveCatch(d, IF d.variant = "page" THEN <<"No entries found for this date">>
                        ELSE <<"No entries found in PDF for this date.">>)

\* what /api/fmcsa-register can answer to the fetch `it`
LiveResponses(it) ==
  {Success(it.date, RowsOf(it.dateToUse)),
   Success(it.date, <<>>),
   [status |-> 500,
    body |-> [success |-> FALSE, error |-> "Failed to scrape FMCSA register data",
              details |-> "timeout of 30000ms exceeded", entries |-> <<>>]]}

LiveReturn(i, response) ==
  /\ i \in 1..Len(dash.lives)
  /\ dash' = [LiveSettle([dash EXCEPT !.lives = Without(@, i)], dash.lives[i], response)
                EXCEPT !.request = dash.lives[i], !.response = response]
  /\ UNCHANGED serverVars

\* fetch() rejects
LiveFail(i, message) ==
  /\ i \in 1..Len(dash.lives)
  /\ dash' = LiveCatch([dash EXCEPT !.lives = Without(@, i)], message)
  /\ UNCHANGED serverVars

\* saveToSupabase from the resolved call on; success = result.success
SaveReturn(i, success) ==
  /\ i \in 1..Len(dash.saving)
  /\ dash' = [dash EXCEPT !.saving = Without(@, i),
                          !.saveStatus = IF success THEN "saved" ELSE "error",
                          !.timers = IF success THEN @ + 1 ELSE @]
  /\ UNCHANGED serverVars

\* the save rejects
SaveFail(i) ==
  /\ i \in 1..Len(dash.saving)
  /\ dash' = [dash EXCEPT !.saving = Without(@, i), !.saveStatus = "error"]
  /\ UNCHANGED serverVars

\* setTimeout(() => setSaveStatus('idle'), 3000)
TimerFires ==
  /\ dash.timers > 0
  /\ dash' = [dash EXCEPT !.timers = @ - 1, !.saveStatus = "idle"]
  /\ UNCHANGED serverVars

NextPage ==
  \/ Mount
  \/ ClickLoad
  \/ \E value \in PageDates : ChangeDate(value)
  \/ ClickFetch
  \/ \E i \in DOMAIN dash.loads : \E rows \in {<<>>, RowsOf(dash.loads[i].dateToUse)} :
       LoadReturn(i, rows)
  \/ \E i \in DOMAIN dash.loads : LoadFail(i)
  \/ \E i \in DOMAIN dash.lives : \E response \in LiveResponses(dash.lives[i]) :
       LiveReturn(i, response)
  \/ \E i \in DOMAIN dash.lives : LiveFail(i, <<"Failed to fetch">>)
  \/ \E i \in DOMAIN dash.saving : \E success \in BOOLEAN : SaveReturn(i, success)
  \/ \E i \in DOMAIN dash.saving : SaveFail(i)
  \/ TimerFires

SpecPage == InitPage /\ [][NextPage]_vars

----------------------------------------------------------------------------
(* The filters of the register page *)

MaxRows == 2

\* const categories, by variant
categories(variant) ==
  IF variant = "page"
  THEN <<"NAME CHANGE", "CERTIFICATE, PERMIT, LICENSE", "CERTIFICATE OF REGISTRATION",
         "DISMISSAL", "WITHDRAWAL", "REVOCATION", "MISCELLANEOUS", "TRANSFERS",
         "GRANT DECISION NOTICES">>
  ELSE <<"NAME CHANGE", "CERTIFICATE, PERMIT, LICENSE", "CERTIFICATE OF REGISTRATION",
         "DISMISSAL", "WITHDRAWAL", "REVOCATION", "TRANSFERS", "GRANT DECISION NOTICES">>

\* the options of the category select
CategoryOptions(variant) ==
  {"all"} \cup {categories(variant)[i] : i \in 1..Len(categories(variant))}

\* rows on the page, and what the user types into the search box
FilterRows ==
  {[number |-> <<"M","C","-","1">>, title |-> <<"A","b">>, decided |-> <<"0","2","/","2","0","/","2","0","2","4">>, category |-> "REVOCATION"],
   [number |-> <<"F","F","-","2">>, title |-> <<"C","d">>, decided |-> <<"0","2","/","2","0","/","2","0","2","4">>, category |-> "DISMISSAL"],
   [number |-> <<"M","C","-","1","2">>, title |-> <<"a","b"," ","c">>, decided |-> <<"0","2","/","2","0","/","2","0","2","4">>, category |-> "MISCELLANEOUS"]}

SearchTerms == {<<>>, <<"a","b">>, <<"A","B">>, <<"m","c","-","1">>, <<"C">>, <<"x">>}

\* String.prototype.includes(pat)
Contains(text, pat) ==
  \E i \in 0..(Len(text) - Len(pat)) : StartsWithAt(text, pat, i)

MatchesCategory(entry, selectedCategory) ==
  selectedCategory = "all" \/ entry.category = selectedCategory

\* variant: the texts are compared as they are written
MatchesSearchAsWritten(entry, searchTerm) ==
  Contains(entry.title, searchTerm) \/ Contains(entry.number, searchTerm)

MatchesSearch(entry, searchTerm) ==
  \/ Contains(ToLowerCase(entry.title), ToLowerCase(searchTerm))
  \/ Contains(ToLowerCase(entry.number), ToLowerCase(searchTerm))

\* const filteredData = registerData.filter(...), computed at every render
filteredData ==
  SelectSeq(dash.registerData,
            LAMBDA entry : /\ MatchesCategory(entry, dash.selectedCategory)
                           /\ MatchesSearch(entry, dash.searchTerm))

\* the page showing rows, nothing in flight
InitFilter ==
  /\ handler = "none"
  /\ method = "none"
  /\ pc = "idle"
  /\ reqDate = NoDate
  /\ outbound = NoFetch
  /\ doc = <<>>
  /\ page = NoPage
  /\ entries = <<>>
  /\ res = NoRes
  /\ error = NoError
  /\ now = NoClock
  /\ param = <<>>
  /\ carrierData = NoCarrier
  /\ fetches = 0
  /\ emailFetches = 0
  /\ emailError = NoError
  /\ sent = 0
  /\ served = <<>>
  /\ other = NoRequest
  /\ dash \in {[p EXCEPT !.mounted = TRUE, !.registerData = rows] :
                 p \in PageStates, rows \in SeqsUpTo(FilterRows, MaxRows)}

\* onChange of the category select
SelectCategory(value) ==
  /\ value \in CategoryOptions(dash.variant)
  /\ value # dash.selectedCategory
  /\ dash' = [dash EXCEPT !.selectedCategory = value]
  /\ UNCHANGED serverVars

\* onChange of the search box
TypeSearch(value) ==
  /\ value # dash.searchTerm
  /\ dash' = [dash EXCEPT !.searchTerm = value]
  /\ UNCHANGED serverVars

\* the clear button, rendered when searchTerm is not ''
ClearSearch ==
  /\ dash.searchTerm # <<>>
  /\ dash' = [dash EXCEPT !.searchTerm = <<>>]
  /\ UNCHANGED serverVars

NextFilter ==
  \/ \E value \in CategoryOptions("page") : SelectCategory(value)
  \/ \E value \in SearchTerms : TypeSearch(value)
  \/ ClearSearch

SpecFilter == InitFilter /\ [][NextFilter]_vars

----------------------------------------------------------------------------
(* The PDF handlers over texts made of section headers and records *)

MaxSectionLines == 4

\* lines of the PDF texts: three section headers, the first two not
\* adjacent in the section list, and two records
SectionLines == {<<"D","I","S","M","I","S","S","A","L","S">>, <<"R","E","V","O","C","A","T","I","O","N","S">>, <<"T","R","A","N","S","F","E","R","S">>,
                 <<"M","C","-","1"," ","A","b"," ","0","1","/","0","2","/","2","0","2","4">>, <<"F","F","-","2"," ","C","d"," ","0","3","/","0","4","/","2","0","2","5">>}

SectionDocs == {JoinLines(ls) : ls \in SeqsUpTo(SectionLines, MaxSectionLines)}

NextPdf ==
  \/ \E h \in {"vercelPdf", "expressPdf"} : \E today \in Todays :
       Request(h, "POST", <<"2","0","2","4","-","0","2","-","2","0">>, today)
  \/ \E data \in SectionDocs : FetchReturn(data)
  \/ \E message \in Failures : FetchFail(message)

SpecPdf == Init /\ [][NextPdf]_vars

----------------------------------------------------------------------------
(* Vocabulary of the properties *)

Range(s) == {s[i] : i \in 1..Len(s)}

\* the k-th smallest element of a set of integers
Nth(S, k) == CHOOSE x \in S : Cardinality({y \in S : y < x}) = k - 1

\* the words of a text (its maximal runs of non-whitespace), joined by
\* single spaces
WordStarts(s) ==
  {i \in 1..Len(s) : s[i] \notin Whitespace /\ (i = 1 \/ s[i - 1] \in Whitespace)}

WordEnds(s) ==
  {i \in 1..Len(s) : s[i] \notin Whitespace /\ (i = Len(s) \/ s[i + 1] \in Whitespace)}

RECURSIVE JoinWords(_, _, _)
JoinWords(s, k, n) ==
  LET word == SubSeq(s, Nth(WordStarts(s), k), Nth(WordEnds(s), k))
  IN  IF k > n THEN <<>>
      ELSE IF k = n THEN word
      ELSE word \o <<" ">> \o JoinWords(s, k + 1, n)

SingleSpaced(s) == JoinWords(s, 1, Cardinality(WordStarts(s)))

\* a successful register response of an HTML handler, of a PDF handler
HtmlSuccess == pc = "done" /\ IsHtml(handler) /\ method = "POST" /\ res.status = 200

PdfSuccess == pc = "done" /\ IsPdf(handler) /\ method = "POST" /\ res.status = 200

\* the text the HTML handlers search
PageText == SoupText(doc)

\* a docket token of the HTML pattern at index s: MC, FF or MX, a hyphen
\* and at least one digit
IsDocketAt(text, s) ==
  /\ s + 4 <= Len(text)
  /\ SubSeq(text, s + 1, s + 2) \in {<<"M","C">>, <<"F","F">>, <<"M","X">>}
  /\ text[s + 3] = "-"
  /\ text[s + 4] \in Digits

Dockets(text) == {s \in Scan(text, {"M", "F"}) : IsDocketAt(text, s)}

\* the index after the docket token at s, and after the whitespace behind it
DocketEnd(text, s) == s + 3 + RunLen(text, s + 3, Digits)

TitleStart(text, s) == DocketEnd(text, s) + RunLen(text, DocketEnd(text, s), Whitespace)

\* the end of the line that holds index p; ws = Scan(text, Whitespace)
LineEnd(text, ws, p) ==
  Min({j \in ws : j >= p /\ text[j + 1] \in LineTerminators} \cup {Len(text)})

\* the indices at which a title that starts at p can end: behind at least
\* one character, on the line of p, before whitespace that leads to a date
TitleEnds(text, ws, p) ==
  {e \in ws :
     /\ e > p
     /\ e <= LineEnd(text, ws, p)
     /\ DateAt(text, e + RunLen(text, e, Whitespace))}

\* the record a docket token at s starts: whitespace, a title, whitespace
\* and a date; ok tells whether there is one
RecordAt(text, ws, s) ==
  LET a    == DocketEnd(text, s)
      p    == TitleStart(text, s)
      ends == TitleEnds(text, ws, p)
  IN  IF p = a \/ ends = {}
      THEN [ok |-> FALSE, number |-> SubSeq(text, s + 1, a)]
      ELSE LET e == Min(ends)
               q == e + RunLen(text, e, Whitespace)
           IN  [ok      |-> TRUE,
                number  |-> SubSeq(text, s + 1, a),
                title   |-> SingleSpaced(SubSeq(text, p + 1, e)),
                decided |-> SubSeq(text, q + 1, q + 10),
                end     |-> q + 10]

\* the records of the docket tokens of a text
Records(text) ==
  LET ws == Scan(text, Whitespace)
  IN  [s \in Dockets(text) |-> RecordAt(text, ws, s)]

\* the start indices of the matches of a pattern, in scan order
RECURSIVE MatchIndexes(_, _, _, _)
MatchIndexes(re, text, marks, lastIndex) ==
  LET match == RegexExec(re, text, marks, lastIndex)
  IN  IF match.index = -1 THEN <<>>
      ELSE <<match.index>> \o MatchIndexes(re, text, marks, match.lastIndex)

HtmlMatches == MatchIndexes(pattern, PageText, Landmarks(pattern, PageText), 0)

\* the first date at or after index a, -1 when there is none
FirstDateFrom(text, a) ==
  LET at == {j \in Scan(text, Digits) : j >= a /\ DateAt(text, j)}
  IN  IF at = {} THEN -1 ELSE Min(at)

----------------------------------------------------------------------------
(* C1: a page whose docket tokens each start a well-formed record (docket, *)
(* whitespace, a title on one line, whitespace, a date), the records       *)
(* disjoint and no two with the same number and normalised title, yields   *)
(* exactly one entry per record, in the order of the records in the text.  *)

\* recs = Records(text)
WellFormed(recs) ==
  LET D == DOMAIN recs IN
  /\ \A s \in D : recs[s].ok
  /\ \A s1, s2 \in D : s1 < s2 => recs[s1].end <= s2
  /\ \A s1, s2 \in D :
       s1 # s2 => recs[s1].number # recs[s2].number \/ recs[s1].title # recs[s2].title

C1_RecordsInOrder ==
  HtmlSuccess =>
     LET recs == Records(PageText)
         D    == DOMAIN recs
     IN  WellFormed(recs) =>
           /\ res.body.count = Cardinality(D)
           /\ Len(res.body.entries) = Cardinality(D)
           /\ \A k \in 1..Cardinality(D) :
                LET r == recs[Nth(D, k)]
                    e == res.body.entries[k]
                IN  e.number = r.number /\ e.title = r.title /\ e.decided = r.decided

\* a well-formed page of at least two records has been answered
C1_Witness ==
  /\ HtmlSuccess
  /\ WellFormed(Records(PageText))
  /\ Cardinality(Dockets(PageText)) >= 2
  /\ Len(res.body.entries) = Cardinality(Dockets(PageText))

----------------------------------------------------------------------------
(* C2, as stated: every match yields an entry whose number is the docket   *)
(* token, whose decided is the first MM/DD/YYYY date following the docket  *)
(* and whose title is the text between them, trimmed and single-spaced.    *)

SpecExample == <<"M","C","-","1","0","0","0","0","0"," ","S","m","i","t","h"," ","T","r","u","c","k","i","n","g"," ","C","o"," ","0","1","/","0","2","/","2","0","2","4">>

----------------------------------------------------------------------------
(* C3: the filter's output is the subsequence of its input made of exactly *)
(* the entries that no earlier entry equals in number and title: it keeps  *)
(* first-seen order and the first occurrence's category and decided date,  *)
(* holds no two entries of equal number and title, and holds every         *)
(* (number, title) pair of the input.                                      *)

SamePair(a, b) == a.number = b.number /\ a.title = b.title

FirstOccurrences(list) ==
  {i \in 1..Len(list) : \A j \in 1..(i - 1) : ~SamePair(list[j], list[i])}

C3_FirstOccurrencesKept ==
  pc = "filtered" =>
     LET I   == FirstOccurrences(entries)
         out == res.body.entries
     IN  /\ Len(out) = Cardinality(I)
         /\ \A k \in 1..Len(out) : out[k] = entries[Nth(I, k)]
         /\ \A a, b \in 1..Len(out) : a < b => ~SamePair(out[a], out[b])
         /\ \A i \in 1..Len(entries) : \E k \in 1..Len(out) : SamePair(entries[i], out[k])

\* a list was filtered in which a pair recurs with another category and
\* date, between entries of the same number and another title
C3_Witness ==
  /\ pc = "filtered"
  /\ Len(res.body.entries) < Len(entries)
  /\ \E i, j \in 1..Len(entries) :
       /\ i < j
       /\ SamePair(entries[i], entries[j])
       /\ entries[i].category # entries[j].category
       /\ entries[i].decided # entries[j].decided
  /\ \E i, j \in 1..Len(res.body.entries) :
       /\ res.body.entries[i].number = res.body.entries[j].number
       /\ res.body.entries[i].title # res.body.entries[j].title

----------------------------------------------------------------------------
(* C4: filtering the filter's own output changes nothing.                  *)

C4_Idempotent == pc = "refiltered" => res.body.entries = entries

\* a filtered list of at least two entries was filtered again
C4_Witness ==
  /\ pc = "refiltered"
  /\ Len(entries) >= 2
  /\ res.body.entries = entries

----------------------------------------------------------------------------
(* C5: every entry of the sectioned pass carries the name of a section     *)
(* whose header occurs in the text and in whose text (from the header to   *)
(* the next listed header behind it, or to the end) its record stands.     *)
(* The header REVOCATIONS followed by one record, with no other header,    *)
(* yields that record with category REVOCATION.                            *)

\* the first index of sections[k].header, -1 when it does not occur
HeaderIndex(fullText, k) ==
  LET at == {j \in Scan(fullText, {sections[k].header[1]}) :
               StartsWithAt(fullText, sections[k].header, j)}
  IN  IF at = {} THEN -1 ELSE Min(at)

SectionSpan(fullText, k) ==
  LET a     == HeaderIndex(fullText, k)
      after == IF k = Len(sections) THEN {}
               ELSE {j \in Scan(fullText, {sections[k + 1].header[1]}) :
                       j >= a /\ StartsWithAt(fullText, sections[k + 1].header, j)}
  IN  SubSeq(fullText, a + 1, IF after = {} THEN Len(fullText) ELSE Min(after))

\* the text holds the entry's docket, then its title up to whitespace, then
\* its date
StandsIn(text, e) ==
  \E s \in Scan(text, {e.number[1]}) :
     /\ StartsWithAt(text, e.number, s)
     /\ \E q \in Scan(text, Digits) :
          /\ q > s + Len(e.number)
          /\ text[q] \in Whitespace
          /\ DateAt(text, q)
          /\ SubSeq(text, q + 1, q + 10) = e.decided
          /\ SingleSpaced(SubSeq(text, s + Len(e.number) + 1, q)) = e.title

RevocationsExample == <<"R","E","V","O","C","A","T","I","O","N","S","\n","M","C","-","1"," ","A","b"," ","0","1","/","0","2","/","2","0","2","4","\n">>

C5_SectionCategory ==
  PdfSuccess =>
     /\ \A i \in 1..Len(entries) :
          (handler = "vercelPdf" \/ entries[i].category # "MISCELLANEOUS") =>
             \E k \in 1..Len(sections) :
                /\ HeaderIndex(doc, k) # -1
                /\ entries[i].category = sections[k].name
                /\ StandsIn(SectionSpan(doc, k), entries[i])
     /\ doc = RevocationsExample =>
          res.body.entries = <<[number |-> <<"M","C","-","1">>, title |-> <<"A","b">>,
                                decided |-> <<"0","1","/","0","2","/","2","0","2","4">>, category |-> "REVOCATION"]>>

\* the example text has been answered, with its one entry
C5_Witness ==
  /\ PdfSuccess
  /\ doc = RevocationsExample
  /\ Len(res.body.entries) = 1
  /\ res.body.entries[1].category = "REVOCATION"

----------------------------------------------------------------------------
(* C6, as stated: no entry of a PDF response has a title of length 0 or of *)
(* length 500 or more, and every record the HTML pattern matches is in the *)
(* HTML response whatever the length of its title.                         *)

C6_TitleLengths ==
  /\ PdfSuccess =>
       \A i \in 1..Len(res.body.entries) :
          /\ Len(res.body.entries[i].title) > 0
          /\ Len(res.body.entries[i].title) < 500
  /\ HtmlSuccess =>
       /\ Len(entries) = Len(HtmlMatches)
       /\ \A i \in 1..Len(entries) :
            \E k \in 1..Len(res.body.entries) : SamePair(entries[i], res.body.entries[k])

----------------------------------------------------------------------------
(* C7: when the upper-cased window of at most 500 characters before a      *)
(* match holds two or more of the category keywords, the entry's category  *)
(* is the one that comes latest in the keyword list, wherever the keywords *)
(* stand in the window.                                                    *)

KeywordList == <<
  [text |-> <<"N","A","M","E"," ","C","H","A","N","G","E">>, name |-> "NAME CHANGE"],
  [text |-> <<"C","E","R","T","I","F","I","C","A","T","E",","," ","P","E","R","M","I","T",","," ","L","I","C","E","N","S","E">>, name |-> "CERTIFICATE, PERMIT, LICENSE"],
  [text |-> <<"C","E","R","T","I","F","I","C","A","T","E"," ","O","F"," ","R","E","G","I","S","T","R","A","T","I","O","N">>, name |-> "CERTIFICATE OF REGISTRATION"],
  [text |-> <<"D","I","S","M","I","S","S","A","L">>, name |-> "DISMISSAL"],
  [text |-> <<"W","I","T","H","D","R","A","W","A","L">>, name |-> "WITHDRAWAL"],
  [text |-> <<"R","E","V","O","C","A","T","I","O","N">>, name |-> "REVOCATION"],
  [text |-> <<"T","R","A","N","S","F","E","R","S">>, name |-> "TRANSFERS"],
  [text |-> <<"G","R","A","N","T"," ","D","E","C","I","S","I","O","N"," ","N","O","T","I","C","E","S">>, name |-> "GRANT DECISION NOTICES"] >>

\* the indices at which pat occurs in w
OccursAt(pat, w) ==
  {j \in 0..(Len(w) - Len(pat)) : w[j + 1] = pat[1] /\ SubSeq(w, j + 1, j + Len(pat)) = pat}

KeywordsIn(w) ==
  LET at == Scan(w, {KeywordList[k].text[1] : k \in 1..Len(KeywordList)})
  IN  {k \in 1..Len(KeywordList) : \E j \in at : StartsWithAt(w, KeywordList[k].text, j)}

\* the characters before index s, at most n of them, upper-cased
WindowBefore(text, s, n) ==
  LET len == IF s < n THEN s ELSE n
  IN  ToUpperCase([j \in 1..len |-> text[s - len + j]])

C7_LatestKeywordWins ==
  HtmlSuccess =>
     LET text == PageText
         m    == HtmlMatches
     IN  \A i \in 1..Len(entries) :
            LET K == KeywordsIn(WindowBefore(text, m[i], 500))
            IN  Cardinality(K) >= 2 =>
                  entries[i].category = KeywordList[CHOOSE k \in K : \A x \in K : x <= k].name

\* an entry got REVOCATION although DISMISSAL stands behind REVOCATION in
\* its window, nearer to the match
C7_Witness ==
  /\ HtmlSuccess
  /\ \E i \in 1..Len(entries) :
       LET w == WindowBefore(PageText, HtmlMatches[i], 500)
       IN  /\ entries[i].category = "REVOCATION"
           /\ \E a \in OccursAt(<<"R","E","V","O","C","A","T","I","O","N">>, w) : \E b \in OccursAt(<<"D","I","S","M","I","S","S","A","L">>, w) : a < b

----------------------------------------------------------------------------
(* C8: the category of a match is decided by the at most 500 characters    *)
(* before the match start, compared without regard to case: it is          *)
(* MISCELLANEOUS when no keyword occurs among them, also when a keyword    *)
(* occurs earlier in the text, and otherwise a keyword that occurs among   *)
(* them.                                                                   *)

C8_WindowDecides ==
  HtmlSuccess =>
     LET text == PageText
         m    == HtmlMatches
     IN  \A i \in 1..Len(entries) :
            LET K == KeywordsIn(WindowBefore(text, m[i], 500))
            IN  /\ K = {} => entries[i].category = "MISCELLANEOUS"
                /\ K # {} => entries[i].category \in {KeywordList[k].name : k \in K}

\* a match more than 500 characters into the text got MISCELLANEOUS while a
\* keyword stands before its window, and a match got DISMISSAL from the
\* mixed-case "Dismissals:" in its window
C8_Witness ==
  /\ HtmlSuccess
  /\ \E i \in 1..Len(entries) :
       LET s == HtmlMatches[i]
       IN  /\ s > 500
           /\ entries[i].category = "MISCELLANEOUS"
           /\ KeywordsIn(WindowBefore(PageText, s, s)) # {}
  /\ \E i \in 1..Len(entries) :
       /\ entries[i].category = "DISMISSAL"
       /\ OccursAt(<<"D","I","S","M","I","S","S","A","L">>, Substring(PageText, 0, HtmlMatches[i])) = {}

----------------------------------------------------------------------------
(* C9: in every success response of every register handler each entry's    *)
(* category is one of the eight category names or MISCELLANEOUS.           *)

C9_CategoryNames ==
  (pc = "done" /\ method = "POST" /\ res.status = 200) =>
     \A i \in 1..Len(res.body.entries) :
        res.body.entries[i].category \in
          {"NAME CHANGE", "CERTIFICATE, PERMIT, LICENSE", "CERTIFICATE OF REGISTRATION",
           "DISMISSAL", "WITHDRAWAL", "REVOCATION", "TRANSFERS", "GRANT DECISION NOTICES",
           "MISCELLANEOUS"}

\* a success response holds an entry of a named category and one of the
\* default category
C9_Witness ==
  /\ pc = "done"
  /\ method = "POST"
  /\ res.status = 200
  /\ \E i, j \in 1..Len(res.body.entries) :
       /\ res.body.entries[i].category = "MISCELLANEOUS"
       /\ res.body.entries[j].category = "REVOCATION"

----------------------------------------------------------------------------
(* C10: the PDF handlers request prefix + date without its hyphens + .PDF: *)
(* nothing but hyphens is removed, an ISO date YYYY-MM-DD becomes the      *)
(* eight characters YYYYMMDD, and 2024-02-20 becomes 20240220.             *)

NotHyphen(c) == c # "-"

C10_PdfUrl ==
  (pc = "fetching" /\ IsPdf(handler)) =>
     LET stamp == SubSeq(outbound.url, Len(pdfUrlPrefix) + 1,
                         Len(outbound.url) - Len(pdfUrlSuffix))
     IN  /\ outbound.url = pdfUrlPrefix \o stamp \o pdfUrlSuffix
         /\ stamp = SelectSeq(reqDate, NotHyphen)
         /\ reqDate \in IsoDates =>
              /\ Len(stamp) = 8
              /\ stamp = SubSeq(reqDate, 1, 4) \o SubSeq(reqDate, 6, 7) \o SubSeq(reqDate, 9, 10)
         /\ reqDate = <<"2","0","2","4","-","0","2","-","2","0">> =>
              outbound.url = <<"h","t","t","p","s",":","/","/","l","i","-","p","u","b","l","i","c",".","f","m","c","s","a",".","d","o","t",".","g","o","v","/","l","i","h","t","m","l","/","r","p","t","s","p","d","f","/","L","I","_","R","E","G","I","S","T","E","R","2","0","2","4","0","2","2","0",".","P","D","F">>

\* the PDF of 2024-02-20 is being fetched
C10_Witness ==
  /\ pc = "fetching"
  /\ IsPdf(handler)
  /\ reqDate = <<"2","0","2","4","-","0","2","-","2","0">>
  /\ outbound.url = <<"h","t","t","p","s",":","/","/","l","i","-","p","u","b","l","i","c",".","f","m","c","s","a",".","d","o","t",".","g","o","v","/","l","i","h","t","m","l","/","r","p","t","s","p","d","f","/","L","I","_","R","E","G","I","S","T","E","R","2","0","2","4","0","2","2","0",".","P","D","F">>

----------------------------------------------------------------------------
(* C11 *)

\* the number the two digits of s write (-1 when they are not two digits)
TwoDigitValue(s) ==
  IF Len(s) = 2 /\ s[1] \in Digits /\ s[2] \in Digits
  THEN 10 * (CHOOSE a \in 0..9 : DigitChars[a + 1] = s[1])
       + (CHOOSE b \in 0..9 : DigitChars[b + 1] = s[2])
  ELSE -1

MonthNames == <<<<"J","A","N">>, <<"F","E","B">>, <<"M","A","R">>, <<"A","P","R">>, <<"M","A","Y">>, <<"J","U","N">>,
                <<"J","U","L">>, <<"A","U","G">>, <<"S","E","P">>, <<"O","C","T">>, <<"N","O","V">>, <<"D","E","C">>>>

\* s is DD-MMM-YY for the day `date` of the month `month` (1-based) of `year`
IsDDMMMYY(s, year, month, date) ==
  /\ Len(s) = 9
  /\ TwoDigitValue(SubSeq(s, 1, 2)) = date
  /\ s[3] = "-"
  /\ SubSeq(s, 4, 6) = MonthNames[month]
  /\ s[7] = "-"
  /\ TwoDigitValue(SubSeq(s, 8, 9)) = year % 100

\* the calendar date that s writes as YYYY-MM-DD, month 1-based
WrittenDate(s) ==
  [year  |-> 100 * TwoDigitValue(SubSeq(s, 1, 2)) + TwoDigitValue(SubSeq(s, 3, 4)),
   month |-> TwoDigitValue(SubSeq(s, 6, 7)),
   date  |-> TwoDigitValue(SubSeq(s, 9, 10))]

\* the date a handler formatted is the current date
FormattedToday ==
  IsHtml(handler) /\ pc # "idle" /\ method = "POST" /\ Falsy(reqDate)

\* the register page has sent a date it formatted from a calendar date
FormattedSelected ==
  dash.pc \in {"awaiting", "settled"} /\ dash.variant = "page" /\ dash.selectedDate # <<>>

\* C11: the date a handler sends for the current date is DD-MMM-YY of that
\* date (day zero-padded, upper-case three-letter month, last two digits of
\* the year), and the date the register page sends for a calendar date
\* selected as YYYY-MM-DD is the DD-MMM-YY of the same date, so both
\* write one date as one string
C11_DateFormat ==
  /\ FormattedToday =>
       IsDDMMMYY(outbound.pd_date, now.year, now.month + 1, now.date)
  /\ FormattedSelected =>
       LET d == WrittenDate(dash.selectedDate)
       IN  /\ IsDDMMMYY(dash.request.date, d.year, d.month, d.date)
           /\ dash.request.date = FormatDateForFMCSA([year |-> d.year, month |-> d.month - 1,
                                                      date |-> d.date])

\* 20 February 2024 goes out as 20-FEB-24
C11_Witness ==
  /\ FormattedSelected
  /\ dash.selectedDate = <<"2","0","2","4","-","0","2","-","2","0">>
  /\ dash.request.date = <<"2","0","-","F","E","B","-","2","4">>
  /\ pc = "fetching" /\ outbound.pd_date = <<"2","0","-","F","E","B","-","2","4">>

----------------------------------------------------------------------------
(* C12 *)

\* a register handler has answered a POST request with an error status
ErrorResponse ==
  pc = "done" /\ handler \in Handlers /\ method = "POST" /\ res.status >= 400

\* C12: every error response of a register handler to a POST request is
\* the error envelope: success false, a non-empty error message, and an
\* entries field that is the empty list
C12_ErrorEnvelope ==
  ErrorResponse =>
    /\ "success" \in DOMAIN res.body /\ res.body.success = FALSE
    /\ "error" \in DOMAIN res.body /\ res.body.error # ""
    /\ "entries" \in DOMAIN res.body /\ res.body.entries = <<>>

----------------------------------------------------------------------------
(* C13 *)

\* the letters of the marker, in either case
MarkerLetters ==
  <<{"F", "f"}, {"M", "m"}, {"C", "c"}, {"S", "s"}, {"A", "a"}, {" "},
    {"R", "r"}, {"E", "e"}, {"G", "g"}, {"I", "i"}, {"S", "s"}, {"T", "t"},
    {"E", "e"}, {"R", "r"}>>

\* the page, upper-cased, contains FMCSA REGISTER
MarkerIn(text) ==
  \E i \in 0..(Len(text) - Len(MarkerLetters)) :
    \A k \in 1..Len(MarkerLetters) : text[i + k] \in MarkerLetters[k]

\* an HTML handler has answered a POST request whose fetch returned a page
HtmlPageAnswered ==
  pc = "done" /\ IsHtml(handler) /\ method = "POST" /\ res.status # 500

InvalidPage ==
  [status |-> 400,
   body |-> [success |-> FALSE, error |-> "Invalid response from FMCSA", entries |-> <<>>]]

\* C13: a fetched page without the marker FMCSA REGISTER (in any case) is
\* answered with 400, success false, "Invalid response from FMCSA" and no
\* entries, and nothing is extracted from it; a page with the marker is
\* never answered with that 400
C13_ContentShape ==
  HtmlPageAnswered =>
    IF MarkerIn(doc) THEN res.status = 200 /\ res # InvalidPage
    ELSE res = InvalidPage /\ entries = <<>>

\* a page without the marker that holds a record
C13_Witness ==
  /\ HtmlPageAnswered
  /\ doc = <<"M","C","-","1"," ","A","b"," ","0","1","/","0","2","/","2","0","2","4","\n">>
  /\ res = InvalidPage
  /\ entries = <<>>

----------------------------------------------------------------------------
(* C15 *)

\* a register handler has answered a POST request whose document was
\* fetched and is valid
ValidDocument ==
  /\ pc = "done" /\ handler \in Handlers /\ method = "POST" /\ outbound # NoFetch
  /\ res.status # 500
  /\ IsHtml(handler) => MarkerIn(doc)

\* no record can match in the text: it has no docket token, or no date
NoRecordIn(text) ==
  \/ Dockets(text) = {}
  \/ \A i \in 0..(Len(text) - 10) : ~DateAt(text, i)

\* C15: a valid document without a matching record is answered with 200,
\* success true, count 0 and an empty entries list
C15_ZeroMatches ==
  (ValidDocument /\ NoRecordIn(IF IsHtml(handler) THEN PageText ELSE doc)) =>
    /\ res.status = 200
    /\ res.body.success = TRUE
    /\ res.body.count = 0
    /\ res.body.entries = <<>>

\* a document with a docket but no date, in an HTML and in a PDF handler
C15_Witness ==
  /\ ValidDocument
  /\ doc \in {<<"F","M","C","S","A"," ","R","e","g","i","s","t","e","r","\n","M","X","-","9"," ","A","b","\n">>, <<"R","E","V","O","C","A","T","I","O","N","S","\n","M","X","-","9"," ","A","b","\n">>}
  /\ res.status = 200 /\ res.body.count = 0

----------------------------------------------------------------------------
(* C14 *)

\* the request was answered after its primary fetch had failed
TransportFailed ==
  pc = "done" /\ error.thrown /\ error.message \in Failures \cup ScrapeFailures

\* C14: a register, carrier, safety or insurance request whose primary
\* outbound fetch fails is answered with status 500 and the underlying
\* error message as details, and the fetch is not repeated: no request
\* issues its primary fetch twice, and a failed one has issued it once
C14_TransportFailure ==
  /\ fetches <= 1
  /\ TransportFailed =>
       /\ res.status = 500
       /\ res.body.details = error.message
       /\ fetches = 1

\* a carrier lookup whose fetch timed out
C14_Witness ==
  /\ TransportFailed
  /\ handler = "carrier"
  /\ error.message = "timeout of 15000ms exceeded"
  /\ res.status = 500 /\ res.body.details = "timeout of 15000ms exceeded"
  /\ fetches = 1

----------------------------------------------------------------------------
(* C17 *)

\* the carrier page was fetched and shows a carrier with a USDOT number
CarrierWithDot ==
  /\ handler = "carrier"
  /\ fetches = 1 /\ ~error.thrown
  /\ page \in CarrierPages /\ page.centers > 0 /\ page.dotNumber # <<>>
  /\ carrierData.dotNumber = page.dotNumber

\* C17: the email fetch of a carrier lookup is issued at most once, and
\* only after the carrier page was fetched, the carrier was found and its
\* USDOT number is not empty; once it is issued the request is answered
\* with 200, and when it fails the answer is the carrier record with an
\* empty email
C17_EmailFetch ==
  /\ emailFetches <= 1
  /\ emailFetches = 1 => CarrierWithDot
  /\ (emailFetches = 1 /\ pc = "done") => res.status = 200
  /\ (pc = "done" /\ emailError.thrown) =>
       /\ res.status = 200
       /\ res.body = [mcNumber |-> param, dotNumber |-> page.dotNumber,
                      legalName |-> page.legalName, email |-> <<>>]

\* an email fetch that timed out, the lookup answered with 200
C17_Witness ==
  /\ pc = "done" /\ emailFetches = 1
  /\ emailError.thrown /\ emailError.message = "timeout of 10000ms exceeded"
  /\ res.status = 200 /\ res.body.email = <<>> /\ res.body.dotNumber = <<"2","2","3","3">>

----------------------------------------------------------------------------
(* C20 *)

\* a carrier lookup has been answered
CarrierAnswered == pc = "done" /\ handler = "carrier"

\* C20: a carrier lookup whose page has no <center> element is answered
\* with 404 "Carrier not found", without a field extracted and without an
\* email fetch; one whose page has such an element is answered with 200
\* and the flat carrier record that carries the requested identifier as
\* mcNumber; 500 is the answer only when the fetch of the carrier page
\* failed or its parsing threw
C20_CarrierOutcome ==
  CarrierAnswered =>
    /\ (page \in CarrierPages /\ page.centers = 0) =>
          /\ res = [status |-> 404, body |-> [error |-> "Carrier not found"]]
          /\ carrierData = NoCarrier
          /\ emailFetches = 0
    /\ (page \in CarrierPages /\ page.centers > 0) =>
          /\ res.status = 200
          /\ DOMAIN res.body = {"mcNumber", "dotNumber", "legalName", "email"}
          /\ res.body.mcNumber = param
          /\ res.body.dotNumber = page.dotNumber
          /\ res.body.legalName = page.legalName
    /\ res.status = 500 => (error.thrown /\ (page = NoPage \/ page = Unparseable))
    /\ res.status \in {200, 404, 500}

\* a page that shows a USDOT number but has no <center> element
C20_Witness ==
  /\ CarrierAnswered
  /\ page \in CarrierPages /\ page.centers = 0 /\ page.dotNumber = <<"2","2","3","3">>
  /\ res.status = 404
  /\ carrierData = NoCarrier

----------------------------------------------------------------------------
(* C16 *)

\* the response has no rows to show: it is not a success, or its entries
\* list is missing or empty
EmptyResult(response) ==
  \/ "success" \notin DOMAIN response.body
  \/ ~response.body.success
  \/ "entries" \notin DOMAIN response.body
  \/ response.body.entries = <<>>

NoEntriesMessages ==
  {<<"No entries found for this date">>, <<"No entries found in PDF for this date.">>}

\* C16: when the response to a live fetch has an empty entries list or is
\* not a success, fetchRegisterData ends with a non-empty error message
\* (the "No entries found ..." message when the response had a 2xx status
\* and a JSON body), leaves lastUpdated as it was and saves nothing
C16_EmptyResult ==
  [][(dash.pc = "awaiting" /\ dash'.pc = "settled" /\ dash'.response.status # 0
      /\ EmptyResult(dash'.response)) =>
       /\ dash'.error # <<>>
       /\ (dash'.response.status \in 200..299 /\ dash'.response.body # NotJson) =>
            dash'.error \in NoEntriesMessages
       /\ dash'.lastUpdated = dash.lastUpdated
       /\ dash'.saves = dash.saves
       /\ ~dash'.isLoading]_vars

\* a handler's 200 answer with count 0 reached a page that showed rows
\* loaded from the database
C16_Witness ==
  /\ dash.pc = "settled"
  /\ dash.response.status = 200 /\ dash.response = res
  /\ res.body.success /\ res.body.entries = <<>>
  /\ dash.error \in NoEntriesMessages
  /\ dash.lastUpdated = <<"Loaded from DB">>
  /\ dash.saves = <<>>

----------------------------------------------------------------------------
(* C18 *)

\* the response a register request gets when it is served alone: a
\* function of the request (handler, date), of the clock it read and of the
\* outcome of its own fetch (the document, or the error)
AloneResponse(r) ==
  IF IsPdf(r.handler) /\ Falsy(r.reqDate)
  THEN [status |-> 400,
        body |-> [success |-> FALSE, error |-> "Date is required (YYYY-MM-DD)"]]
  ELSE IF r.error.thrown
  THEN IF IsHtml(r.handler)
       THEN [status |-> 500,
             body |-> [success |-> FALSE, error |-> "Failed to scrape FMCSA register data",
                       details |-> r.error.message, entries |-> <<>>]]
       ELSE [status |-> 500,
             body |-> [success |-> FALSE,
                       error |-> "Failed to scrape FMCSA PDF. The file might not be generated yet for this date.",
                       details |-> r.error.message]]
  ELSE IF IsHtml(r.handler)
  THEN IF ~MarkerIn(r.doc) THEN InvalidPage
       ELSE Success(IF Falsy(r.reqDate) THEN FormatDateForFMCSA(r.now) ELSE r.reqDate,
                    UniqueEntries(HtmlEntries(SoupText(r.doc))))
  ELSE Success(r.reqDate, UniqueEntries(PdfEntries(r.handler, r.doc)))

Isolated(r) == (r.pc = "done" /\ r.method = "POST") => r.res = AloneResponse(r)

\* C18: with two register requests in flight, interleaved at their awaits
\* in every order, the response of each is the response it gets alone
C18_Isolation == Isolated(Locals) /\ Isolated(other)

\* two HTML requests in flight for different dates, each answered with
\* its own date
C18_Witness ==
  /\ pc = "done" /\ other.pc = "done"
  /\ IsHtml(handler) /\ IsHtml(other.handler)
  /\ res.status = 200 /\ other.res.status = 200
  /\ res.body.date = <<"2","0","-","F","E","B","-","2","4">>
  /\ other.res.body.date = <<"0","1","-","N","O","V","-","2","6">>
  /\ Falsy(other.reqDate)

----------------------------------------------------------------------------
(* C19 *)

\* the request is in a handler that waits for an outbound fetch
InFlight == pc \in {"fetching", "emailing"}

\* the body sent is a JSON object
JsonBody == DOMAIN res.body # {}

\* the answer to the OPTIONS request of a serverless handler:
\* res.status(200).end(), without a body
Preflight ==
  IsVercel(handler) /\ method = "OPTIONS" /\ res.status = 200 /\ DOMAIN res.body = {}

----------------------------------------------------------------------------
(* C21, as stated: the text scanned for a section runs from the first      *)
(* occurrence of its header to the start of the next section header that   *)
(* occurs in the text after it (the end of the text when none follows),    *)
(* and every record behind a header is extracted under exactly one         *)
(* section, the one whose header most closely precedes it.                 *)

\* the indices at which some section header stands
HeaderIndexes(fullText) ==
  {j \in HeaderStarts(fullText) :
     \E k \in 1..Len(sections) : StartsWithAt(fullText, sections[k].header, j)}

\* the section of sections[k] as stated: up to the next header of another
\* section
StatedSection(fullText, k) ==
  LET a     == HeaderIndex(fullText, k)
      after == {j \in HeaderIndexes(fullText) :
                  j > a /\ ~StartsWithAt(fullText, sections[k].header, j)}
  IN  Substring(fullText, a, IF after = {} THEN Len(fullText) ELSE Min(after))

\* the header index that most closely precedes index s; before is not empty
Nearest(before) == CHOOSE j \in before : \A i \in before : i <= j

\* the pushed entries that hold the record r
PushedFor(r) ==
  {i \in 1..Len(entries) : entries[i].number = r.number /\ entries[i].title = r.title}

\* REVOCATIONS follows DISMISSALS, whose successor in the list is absent
SkippedHeaderExample == <<"D","I","S","M","I","S","S","A","L","S","\n","R","E","V","O","C","A","T","I","O","N","S","\n","M","C","-","1"," ","A","b"," ","0","1","/","0","2","/","2","0","2","4","\n">>

C21_SectionBounds ==
  PdfSuccess =>
     LET at   == HeaderStarts(doc)
         recs == Records(doc)
     IN  /\ \A k \in 1..Len(sections) :
              HeaderIndex(doc, k) # -1 => SectionText(doc, at, k) = StatedSection(doc, k)
         /\ WellFormed(recs) =>
              \A s \in DOMAIN recs :
                 LET before == {j \in HeaderIndexes(doc) : j < s} IN
                 before # {} =>
                    /\ Cardinality(PushedFor(recs[s])) = 1
                    /\ \A i \in PushedFor(recs[s]) :
                         \E k \in 1..Len(sections) :
                            /\ StartsWithAt(doc, sections[k].header, Nearest(before))
                            /\ entries[i].category = sections[k].name

----------------------------------------------------------------------------
(* C22: on the express PDF route, a text that holds none of the section    *)
(* headers is searched in one pass over the whole text; the response holds *)
(* every record of the text in text order, each with category              *)
(* MISCELLANEOUS, a record of equal number and title only once.            *)

\* the records of the text are whole and disjoint (equal ones allowed)
Whole(recs) ==
  /\ \A s \in DOMAIN recs : recs[s].ok
  /\ \A s1, s2 \in DOMAIN recs : s1 < s2 => recs[s1].end <= s2

\* the k-th record of the text as an entry of the fallback pass
Miscellaneous(recs, k) ==
  LET r == recs[Nth(DOMAIN recs, k)]
  IN  [number |-> r.number, title |-> r.title, decided |-> r.decided,
       category |-> "MISCELLANEOUS"]

FallbackAnswered ==
  PdfSuccess /\ handler = "expressPdf" /\ HeaderIndexes(doc) = {}

C22_Fallback ==
  FallbackAnswered =>
     LET recs == Records(doc)
         n    == Cardinality(DOMAIN recs)
         all  == [k \in 1..n |-> Miscellaneous(recs, k)]
         I    == FirstOccurrences(all)
     IN  Whole(recs) =>
           /\ entries = all
           /\ Len(res.body.entries) = Cardinality(I)
           /\ \A k \in 1..Cardinality(I) : res.body.entries[k] = all[Nth(I, k)]

\* a text without header and with a repeated record has been answered
C22_Witness ==
  /\ FallbackAnswered
  /\ Whole(Records(doc))
  /\ Len(entries) = 3
  /\ Len(res.body.entries) = 2
  /\ res.body.entries[1].number # res.body.entries[2].number

----------------------------------------------------------------------------
(* C23, as stated: a PDF text whose records are well formed, pairwise      *)
(* distinct in (number, title), with titles of 1 to 499 characters, and    *)
(* all behind some section header, yields one entry per record, in the     *)
(* order of the records in the text, whatever the order of the headers.    *)

\* every record of the text stands behind a section header
BehindHeader(text) ==
  \A s \in Dockets(text) : \E j \in HeaderIndexes(text) : j < s

\* the headers stand in the text in another order than in the section list
TransfersFirstExample ==
  <<"T","R","A","N","S","F","E","R","S","\n","M","C","-","1"," ","A","b"," ","0","1","/","0","2","/","2","0","2","4","\n","R","E","V","O","C","A","T","I","O","N","S","\n","F","F","-","2"," ","C","d"," ","0","3","/","0","4","/","2","0","2","5","\n">>

C23_OrderAndCount ==
  PdfSuccess =>
     LET recs == Records(doc)
         D    == DOMAIN recs
     IN  (/\ WellFormed(recs)
          /\ BehindHeader(doc)
          /\ \A s \in D : Len(recs[s].title) \in 1..(TitleLimit - 1)) =>
           /\ res.body.count = Cardinality(D)
           /\ Len(res.body.entries) = Cardinality(D)
           /\ \A k \in 1..Cardinality(D) :
                LET r == recs[Nth(D, k)]
                    e == res.body.entries[k]
                IN  e.number = r.number /\ e.title = r.title /\ e.decided = r.decided

----------------------------------------------------------------------------
(* C24: a POST request without date, or with an empty one, is answered by  *)
(* the PDF handlers with 400, success false and "Date is required          *)
(* (YYYY-MM-DD)", no outbound fetch being made; the HTML handlers do not   *)
(* reject it: they fetch the register of the current day, written          *)
(* DD-MMM-YY, and a success response carries that date.                    *)

\* a POST request whose body has no date, or an empty one, has been taken up
Undated ==
  handler \in Handlers /\ method = "POST" /\ pc # "idle" /\ reqDate \in {NoDate, <<>>}

DateRequired ==
  [status |-> 400, body |-> [success |-> FALSE, error |-> "Date is required (YYYY-MM-DD)"]]

C24_MissingDate ==
  /\ (Undated /\ IsPdf(handler)) =>
       /\ pc = "done"
       /\ res = DateRequired
       /\ fetches = 0
       /\ outbound = NoFetch
  /\ (Undated /\ IsHtml(handler)) =>
       /\ fetches = 1
       /\ outbound.kind = "POST"
       /\ IsDDMMMYY(outbound.pd_date, now.year, now.month + 1, now.date)
       /\ res # DateRequired
       /\ (pc = "done" /\ res.status = 200) => res.body.date = outbound.pd_date

\* an HTML handler has answered an undated request made on 20 February 2024
C24_Witness ==
  /\ Undated
  /\ HtmlSuccess
  /\ reqDate = NoDate
  /\ now = [year |-> 2024, month |-> 1, date |-> 20]
  /\ res.body.date = <<"2","0","-","F","E","B","-","2","4">>
  /\ res.body.count = 1

----------------------------------------------------------------------------
(* C27: in every success response of a register handler, count is the      *)
(* number of entries of the response and date is the date of the request,  *)
(* or, for an HTML request without date, the date sent to FMCSA, which is  *)
(* the current day.                                                        *)

RegisterSuccess == HtmlSuccess \/ PdfSuccess

C27_CountAndDate ==
  RegisterSuccess =>
     /\ res.body.success = TRUE
     /\ res.body.count = Len(res.body.entries)
     /\ IF reqDate \in {NoDate, <<>>}
        THEN /\ IsHtml(handler)
             /\ res.body.date = outbound.pd_date
             /\ IsDDMMMYY(res.body.date, now.year, now.month + 1, now.date)
        ELSE res.body.date = reqDate

\* a PDF handler has answered a dated request with one entry
C27_Witness ==
  /\ PdfSuccess
  /\ reqDate = <<"2","0","2","4","-","0","2","-","2","0">>
  /\ res.body.date = <<"2","0","2","4","-","0","2","-","2","0">>
  /\ res.body.count = 1
  /\ Len(res.body.entries) = 1

----------------------------------------------------------------------------
(* C26: the register page calls the save only in the step in which a live  *)
(* fetch returns success with at least one entry, once, with the entries   *)
(* of that response and the date the fetch was issued for; no other step   *)
(* (a database load resolving, a failed or empty fetch) calls it.          *)

\* the live fetch that the step has settled is dash'.request, its response
\* dash'.response
LiveSettled ==
  /\ dash'.loads = dash.loads
  /\ \E i \in DOMAIN dash.lives :
        /\ dash'.lives = Without(dash.lives, i)
        /\ dash'.request = dash.lives[i]

C26_SaveOrdering ==
  [][dash'.saves # dash.saves =>
       /\ Len(dash'.saves) = Len(dash.saves) + 1
       /\ SubSeq(dash'.saves, 1, Len(dash.saves)) = dash.saves
       /\ LiveSettled
       /\ dash'.response.status \in 200..299
       /\ dash'.response.body.success
       /\ Len(dash'.response.body.entries) > 0
       /\ dash'.saves[Len(dash'.saves)] =
            [entries |-> dash'.response.body.entries, fetchDate |-> dash'.request.dateToUse]
       /\ dash'.request.date \in {dash'.request.dateToUse,
                                  FormatDateForAPI(dash'.request.dateToUse)}]_vars

\* a fetch issued for one date has been saved after the user selected
\* another, and a database load has resolved with rows since
C26_Witness ==
  /\ Len(dash.saves) = 1
  /\ dash.saves[1].fetchDate # dash.selectedDate
  /\ dash.saves[1].entries = RowsOf(dash.saves[1].fetchDate)
  /\ dash.response.status = 200
  /\ dash.registerData = RowsOf(dash.selectedDate)
  /\ dash.loads = <<>> /\ dash.lives = <<>>

----------------------------------------------------------------------------
(* C28, as stated: isLoading is true in every state in which a database    *)
(* load or a live fetch of the component is in flight, and no live fetch   *)
(* is started by the 'Fetch Live' button while another live fetch is in    *)
(* flight.                                                                 *)

Pending == dash.loads # <<>> \/ dash.lives # <<>>

\* live fetches are kept in the order in which they were started
ButtonWhileInFlight ==
  \E j \in 2..Len(dash.lives) : dash.lives[j].by = "button"

C28_LoadingFlag ==
  /\ Pending => dash.isLoading
  /\ ~ButtonWhileInFlight

----------------------------------------------------------------------------
(* C29, as stated: in the page variant that reloads on date change, when   *)
(* no load or fetch is in flight and registerData is not empty,            *)
(* registerData holds the entries of the selected date.                    *)

C29_CurrentDate ==
  (dash.variant = "pdfPage" /\ ~Pending /\ dash.registerData # <<>>) =>
     dash.registerData = RowsOf(dash.selectedDate)

----------------------------------------------------------------------------
(* C30, as stated: saveStatus is 'saving' in every state in which a save   *)
(* is in flight; it becomes 'saved' or 'error' only in a step in which a   *)
(* save resolves; the reset timer of a successful save does not change     *)
(* saveStatus while a later save is in flight and does not replace a later *)
(* save's 'error'.                                                         *)

\* the step resolves a save; the step fires a reset timer
SaveResolves == Len(dash'.saving) < Len(dash.saving)

TimerFired == dash'.timers < dash.timers

C30_SaveStatus ==
  /\ [](dash.saving # <<>> => dash.saveStatus = "saving")
  /\ [][(dash'.saveStatus # dash.saveStatus /\ dash'.saveStatus \in {"saved", "error"})
          => SaveResolves]_vars
  /\ [][(TimerFired /\ (dash.saving # <<>> \/ dash.saveStatus = "error"))
          => dash'.saveStatus = dash.saveStatus]_vars

----------------------------------------------------------------------------
(* C25: filteredData is the subsequence of registerData, in order, of      *)
(* exactly the entries whose category is the selected one (every entry for *)
(* 'all') and whose title or number contains the search term, letters      *)
(* compared without regard to case; with 'all' and an empty search term it *)
(* is registerData; changing a filter does not change registerData.        *)

\* the characters a and b are equal, or the two cases of one letter
SameLetter(a, b) ==
  a = b \/ \E k \in 1..26 : {a, b} = {LowerLetters[k], UpperLetters[k]}

\* pat stands somewhere in text, case disregarded
Occurs(text, pat) ==
  \E i \in 0..(Len(text) - Len(pat)) :
     \A j \in 1..Len(pat) : SameLetter(text[i + j], pat[j])

\* the indices of the entries the filters let through
Wanted ==
  {i \in 1..Len(dash.registerData) :
     LET e == dash.registerData[i] IN
     /\ dash.selectedCategory = "all" \/ e.category = dash.selectedCategory
     /\ Occurs(e.title, dash.searchTerm) \/ Occurs(e.number, dash.searchTerm)}

C25_Filter ==
  /\ [](/\ Len(filteredData) = Cardinality(Wanted)
        /\ \A k \in 1..Cardinality(Wanted) :
             filteredData[k] = dash.registerData[Nth(Wanted, k)]
        /\ (dash.selectedCategory = "all" /\ dash.searchTerm = <<>>) =>
             filteredData = dash.registerData)
  /\ [][(dash'.selectedCategory # dash.selectedCategory \/ dash'.searchTerm # dash.searchTerm)
          => dash'.registerData = dash.registerData]_vars

\* two rows, of which the filters let through the second only, found by a
\* search term in the other case
C25_Witness ==
  /\ Len(dash.registerData) = 2
  /\ dash.selectedCategory = "MISCELLANEOUS"
  /\ dash.searchTerm = <<"A","B">>
  /\ dash.registerData[1].category = "REVOCATION"
  /\ filteredData = <<dash.registerData[2]>>

====
